---- MODULE Spec2Model ----
(***************************************************************************)
(* The VM-triggered rule garbage collection of the firewall API:           *)
(* DELETE /firewalls/vms/:uuid (lib/endpoints/firewalls/vms.js).           *)
(*                                                                         *)
(* A request resolves the target VM, fetches the candidate rules and feeds *)
(* them one at a time to maybeDeleteRule.  Every call to the VM inventory  *)
(* (getVm) and to the rule store (vmRules, deleteRule) suspends the        *)
(* request; one action of the model is one callback of the code: it runs   *)
(* from the return of a backend call to the issue of the next one, or to   *)
(* the response.  The read path, GET /firewalls/vms/:uuid, and the         *)
(* validateParams gate of both routes are modelled the same way.           *)
(***************************************************************************)
EXTENDS Integers, Sequences, FiniteSets, TLC

VARIABLES
    inventory,  \* VM id -> "running" | "destroyed" | "absent" (getVm answers 404)
    store,      \* the rules held by the rule store, in the order a query returns them
    faults,     \* backend calls that have failed with an error other than 404
    passes,     \* DELETE requests the client issues, one after the other
    req         \* request id -> the state of that request

vars == <<inventory, store, faults, passes, req>>

-----------------------------------------------------------------------------
(* Bounds of the model *)

MaxRules == 2       \* most rules in a store of test rules
MaxFaults == 1      \* most backend calls that fail with a non-404 error

VMs == {"A", "B", "C"}
VmStates == {"running", "destroyed", "absent"}
Reqs == {1, 2}      \* a DELETE request and the one that follows it

-----------------------------------------------------------------------------
(* Rule model: the read contract of a rule (spec, section 3) *)

NoDup(s) == \A i, j \in 1..Len(s) : i # j => s[i] # s[j]

\* The vms lists: every list of distinct VM ids
VmLists == {s \in UNION {[1..n -> VMs] : n \in 0..Cardinality(VMs)} : NoDup(s)}

ShortVmLists == {s \in VmLists : Len(s) <= 1}

Side(w, i, s, t, v) ==
    [wildcards |-> w, ips |-> i, subnets |-> s, tags |-> t, vms |-> v]

\* A side names VMs only, or carries one kind of selector beside a short VM list.
Sides ==
    {Side(<<>>, <<>>, <<>>, <<>>, v) : v \in VmLists}
    \cup {Side(<<"any">>, <<>>, <<>>, <<>>, v) : v \in ShortVmLists}
    \cup {Side(<<>>, <<"10.0.0.1">>, <<>>, <<>>, <<>>),
          Side(<<>>, <<>>, <<"10.0.0.0/8">>, <<>>, <<>>)}
    \cup {Side(<<>>, <<>>, <<>>, <<"foo=bar">>, v) : v \in ShortVmLists}

RuleTags == {<<>>, <<"foo">>}

Rule(u, t, f, o) == [uuid |-> u, tags |-> t, from |-> f, to |-> o]

Rules == {Rule(1, t, f, o) : t \in RuleTags, f \in Sides, o \in Sides}

-----------------------------------------------------------------------------
(* Backend responses *)

ErrNone == 0
ErrNotFound == 404
ErrBackend == 500

\* The owner and the tags of the VMs the inventory holds
VmOwner == [id \in VMs |-> IF id = "C" THEN "owner2" ELSE "owner1"]
VmTags == [id \in VMs |-> IF id = "B" THEN <<"role">> ELSE <<>>]

\* VMAPI getVm: the VM, or a 404 error when the inventory does not hold it.
GetVm(id) ==
    IF inventory[id] = "absent"
    THEN [err |-> ErrNotFound, uuid |-> id, state |-> "absent",
          owner_uuid |-> "none", tags |-> <<>>]
    ELSE [err |-> ErrNone, uuid |-> id, state |-> inventory[id],
          owner_uuid |-> VmOwner[id], tags |-> VmTags[id]]

BackendError ==
    [err |-> ErrBackend, uuid |-> "none", state |-> "none",
     owner_uuid |-> "none", tags |-> <<>>]

\* What a getVm call can answer: the inventory's answer, or a backend error.
GetVmResponses(id) ==
    {GetVm(id)} \cup (IF faults < MaxFaults THEN {BackendError} ELSE {})

\* The store's filtered query: the candidates, in store order.
vmRules == store

\* The store's delete-by-id: 404 when the rule is already gone.
DeleteRuleErr(uuid) ==
    IF \E i \in 1..Len(store) : store[i].uuid = uuid THEN ErrNone ELSE ErrNotFound

DeleteRuleResponses(uuid) ==
    {DeleteRuleErr(uuid)} \cup (IF faults < MaxFaults THEN {ErrBackend} ELSE {})

RECURSIVE Without(_, _)
Without(s, uuid) ==
    IF s = <<>> THEN <<>>
    ELSE IF Head(s).uuid = uuid THEN Without(Tail(s), uuid)
    ELSE <<Head(s)>> \o Without(Tail(s), uuid)

-----------------------------------------------------------------------------
(* One DELETE request *)

IdleReq ==
    [pc |-> "idle", targ |-> "none", rules |-> <<>>, k |-> 0,
     side |-> "none", pos |-> 0, cb |-> "none",
     sent |-> <<>>, lookups |-> <<>>, answers |-> <<>>, deletes |-> <<>>,
     decisions |-> <<>>, calls |-> <<>>, errs |-> <<>>,
     method |-> "none", params |-> [uuid |-> "none"],
     filter |-> [owner_uuid |-> "none", tags |-> <<>>, vms |-> <<>>],
     body |-> <<>>, nexts |-> 0]

\* pc: "idle", "getVm" (target lookup out), "vmRules" (query out), "pipeline"
\*     (the rule pipeline waits for its turn to start candidate k, or, with
\*     no candidate, to call nextRule), "lookup" (a probe's getVm out),
\*     "vm-pipeline" (the VM pipeline waits for its turn to look up the id
\*     after pos), "deleteRule"
\*     (a delete out), "done" (response sent).
\* rules, k: the candidates and the index of the one being evaluated.
\* side, pos, cb: the side being probed, the position of the id looked up in
\*     its vms list, and the callback the probe reports to.
\* nexts: the calls of the handler chain's next.
\* sent: the responses sent.  lookups, answers, deletes, decisions: the probe
\*     lookups issued, what each was answered, the store deletes issued, and
\*     the outcome of each candidate evaluated so far.
\* method, params: the HTTP method and the parameters of a request that came
\*     through the restify route.  filter: the filter of the read path's
\*     query.  body: what was sent beside the status code.
\* calls, errs: every backend call issued (rule 0: before the rule pipeline)
\*     and the error code each was answered with (ErrNone: no error).

\* res.send(code); next()
Respond(q, code) ==
    [q EXCEPT !.pc = "done", !.sent = Append(@, code), !.nexts = @ + 1,
              !.side = "none", !.pos = 0, !.cb = "none"]

\* Variant: side-level tags make a side active too.
sideActive_TagsCount(side) ==
    \/ Len(side.wildcards) > 0 \/ Len(side.ips) > 0 \/ Len(side.subnets) > 0
    \/ Len(side.tags) > 0

\* Variant: a side that lists VM ids is never taken to be structural.
sideActive_NotWithVms(side) ==
    /\ Len(side.vms) = 0
    /\ (Len(side.wildcards) > 0 \/ Len(side.ips) > 0 \/ Len(side.subnets) > 0)

sideActive(side) ==
    Len(side.wildcards) > 0 \/ Len(side.ips) > 0 \/ Len(side.subnets) > 0

CurRule(q) == q.rules[q.k]

SideOf(rule, name) == IF name = "from" THEN rule.from ELSE rule.to

\* Variant: a completed pass is answered 204.
pipelineNext_NoContent(q) ==
    IF q.k >= Len(q.rules)
    THEN [Respond(q, 204) EXCEPT !.k = @ + 1]
    ELSE [q EXCEPT !.k = @ + 1, !.pc = "pipeline",
                   !.side = "none", !.pos = 0, !.cb = "none"]

\* The rule pipeline after a candidate that did not fail: after the last
\* one its final callback nextRule runs in the same call and sends 200;
\* otherwise the next candidate is started in a later turn.
pipelineNext(q) ==
    IF q.k >= Len(q.rules)
    THEN [Respond(q, 200) EXCEPT !.k = @ + 1]
    ELSE [q EXCEPT !.k = @ + 1, !.pc = "pipeline",
                   !.side = "none", !.pos = 0, !.cb = "none"]

\* Variant: a failed candidate is answered 503 at once and the rule pipeline
\* goes on.
nextRuleCb_SendAndGoOn(q, decision) ==
    IF decision = "Fail"
    THEN pipelineNext([Respond(q, 503) EXCEPT !.decisions = Append(@, "Fail")])
    ELSE pipelineNext([q EXCEPT !.decisions = Append(@, decision)])

\* Variant: a failed candidate does not end the rule pipeline.
nextRuleCb_FailContinues(q, decision) ==
    pipelineNext([q EXCEPT !.decisions = Append(@, decision)])

\* Variant: the request is answered as soon as one rule has been deleted.
nextRuleCb_StopAfterDelete(q, decision) ==
    IF decision = "Fail"
    THEN Respond([q EXCEPT !.decisions = Append(@, "Fail")], 503)
    ELSE IF decision = "Delete"
    THEN Respond([q EXCEPT !.decisions = Append(@, "Delete")], 200)
    ELSE pipelineNext([q EXCEPT !.decisions = Append(@, decision)])

\* The rule pipeline's step callback: an error ends the pipeline, whose final
\* callback nextRule sends 503; otherwise the pipeline goes on.
nextRuleCb(q, decision) ==
    IF decision = "Fail"
    THEN Respond([q EXCEPT !.decisions = Append(@, "Fail")], 503)
    ELSE pipelineNext([q EXCEPT !.decisions = Append(@, decision)])

\* A backend call goes out
Call(q, op) == [q EXCEPT !.calls = Append(@, [op |-> op, rule |-> q.k])]

\* A backend call's callback is entered with err
Answered(q, err) == [q EXCEPT !.errs = Append(@, err)]

\* Variant: the lookup of the next id of the list goes out together with
\* this one.
checkVMExists_TwoAtOnce(q, side, pos, cb) ==
    LET vms == SideOf(CurRule(q), side).vms
        one == [Call(q, "getVm") EXCEPT
                   !.pc = "lookup", !.side = side, !.pos = pos, !.cb = cb,
                   !.lookups = Append(@, [rule |-> q.k, side |-> side,
                                          vm |-> vms[pos]])]
    IN  IF pos < Len(vms)
        THEN [Call(one, "getVm") EXCEPT
                 !.lookups = Append(@, [rule |-> q.k, side |-> side,
                                        vm |-> vms[pos + 1]])]
        ELSE one

\* req._vmapi.getVm({uuid: vm_uuid}, nextVmWrap)
checkVMExists(q, side, pos, cb) ==
    [Call(q, "getVm") EXCEPT
        !.pc = "lookup", !.side = side, !.pos = pos, !.cb = cb,
        !.lookups = Append(@, [rule |-> q.k, side |-> side,
                               vm |-> SideOf(CurRule(q), side).vms[pos]])]

\* Variant: the delete is issued and the pipeline moves on without waiting
\* for deleteCb.
deleteRule_NoWait(q) ==
    nextRuleCb([Call(q, "deleteRule") EXCEPT
                   !.deletes = Append(@, CurRule(q).uuid)], "Delete")

\* mod_persist.deleteRule(req._app, req.log, rule.uuid, deleteCb)
deleteRule(q) ==
    [Call(q, "deleteRule") EXCEPT
        !.pc = "deleteRule", !.side = "none", !.pos = 0, !.cb = "none",
        !.deletes = Append(@, CurRule(q).uuid)]

\* Variant: the side's error is not looked at.
ruleTryDelete_IgnoreErr(q, err2, active2) ==
    IF active2 THEN nextRuleCb(q, "Keep")
    ELSE deleteRule(q)

ruleTryDelete(q, err2, active2) ==
    IF active2 THEN nextRuleCb(q, "Keep")
    ELSE IF err2 THEN nextRuleCb(q, "Fail")
    ELSE deleteRule(q)

\* Variant: a VM-bound side is taken to be dead without being probed.
vmSideActiveTryDelete_NoProbe(q, side) ==
    ruleTryDelete(q, FALSE, FALSE)

\* vmSideActive with ruleTryDelete as its callback
vmSideActiveTryDelete(q, side) ==
    IF Len(SideOf(CurRule(q), side).vms) = 0
    THEN ruleTryDelete(q, FALSE, FALSE)
    ELSE checkVMExists(q, side, 1, "ruleTryDelete")

\* Variant: a live member on the to side keeps the rule.
isToVmActive_KeepWhenToLive(q, err, active3) ==
    IF err THEN nextRuleCb(q, "Fail")
    ELSE IF active3 THEN nextRuleCb(q, "Keep")
    ELSE ruleTryDelete(q, FALSE, FALSE)

isToVmActive(q, err, active3) ==
    IF err THEN nextRuleCb(q, "Fail")
    ELSE IF active3 THEN vmSideActiveTryDelete(q, "from")
    ELSE ruleTryDelete(q, FALSE, FALSE)

\* The callback a side's probe was started with
SideCb(q, err, active) ==
    IF q.cb = "isToVmActive" THEN isToVmActive(q, err, active)
    ELSE ruleTryDelete(q, err, active)

\* vmSideActive(targ, req, rule.to, isToVmActive)
vmSideActiveBoth(q) ==
    IF Len(CurRule(q).to.vms) = 0
    THEN isToVmActive(q, FALSE, FALSE)
    ELSE checkVMExists(q, "to", 1, "isToVmActive")

\* Variant: rule-level tags are not looked at.
maybeDeleteRule_NoTagCheck(q) ==
    LET rule == CurRule(q) IN
    IF sideActive(rule.from)
    THEN IF sideActive(rule.to) THEN nextRuleCb(q, "Keep")
         ELSE vmSideActiveTryDelete(q, "to")
    ELSE IF sideActive(rule.to) THEN vmSideActiveTryDelete(q, "from")
         ELSE vmSideActiveBoth(q)

\* maybeDeleteRule, up to its first backend call
maybeDeleteRule(q) ==
    LET rule == CurRule(q) IN
    IF Len(rule.tags) > 0 THEN nextRuleCb(q, "Keep")
    ELSE IF sideActive(rule.from)
         THEN IF sideActive(rule.to) THEN nextRuleCb(q, "Keep")
              ELSE vmSideActiveTryDelete(q, "to")
         ELSE IF sideActive(rule.to) THEN vmSideActiveTryDelete(q, "from")
              ELSE vmSideActiveBoth(q)

\* Variant: a 404 of the lookup is an error like any other.
nextVmWrap_NotFoundIsErr(targ, resp) ==
    IF resp.err # ErrNone THEN "err"
    ELSE IF resp.uuid = targ \/ resp.state = "destroyed" THEN "null"
         ELSE "VMExistsError"

\* Variant: every error of the lookup is taken to mean the VM is gone.
nextVmWrap_ErrIsDead(targ, resp) ==
    IF resp.err # ErrNone THEN "null"
    ELSE IF resp.uuid = targ \/ resp.state = "destroyed" THEN "null"
         ELSE "VMExistsError"

\* Variant: a VM the inventory still holds as destroyed counts as live.
nextVmWrap_DestroyedIsLive(targ, resp) ==
    IF resp.err # ErrNone
    THEN IF resp.err = ErrNotFound THEN "null" ELSE "err"
    ELSE IF resp.uuid = targ THEN "null"
         ELSE "VMExistsError"

\* Variant: the target of the pass is not told apart from the other VMs.
nextVmWrap_TargetIsLive(targ, resp) ==
    IF resp.err # ErrNone
    THEN IF resp.err = ErrNotFound THEN "null" ELSE "err"
    ELSE IF resp.state = "destroyed" THEN "null"
         ELSE "VMExistsError"

\* Variant: a VM that any request in progress targets counts as dead, as if
\* the passes knew of each other.
nextVmWrap_AnyTargetIsDead(targ, resp) ==
    IF resp.err # ErrNone
    THEN IF resp.err = ErrNotFound THEN "null" ELSE "err"
    ELSE IF resp.uuid \in {req[p].targ : p \in DOMAIN req} \/ resp.state = "destroyed"
         THEN "null"
         ELSE "VMExistsError"

\* nextVmWrap: what checkVMExists hands to the VM pipeline for one answer:
\* "null" (dead, go on), "VMExistsError" (live) or "err" (a backend error).
nextVmWrap(targ, resp) ==
    IF resp.err # ErrNone
    THEN IF resp.err = ErrNotFound THEN "null" ELSE "err"
    ELSE IF resp.uuid = targ \/ resp.state = "destroyed" THEN "null"
         ELSE "VMExistsError"

\* Variant: a live VM does not end the VM pipeline.
nextVmCb_NoShortCircuit(q, outcome) ==
    IF outcome = "err" THEN SideCb(q, TRUE, FALSE)
    ELSE IF q.pos < Len(SideOf(CurRule(q), q.side).vms)
         THEN [q EXCEPT !.pc = "vm-pipeline"]
         ELSE SideCb(q, FALSE, outcome = "VMExistsError")

\* Variant: at the end of a vms list with every id dead the side's callback
\* is not called.
nextVmCb_NoCbAtEnd(q, outcome) ==
    IF outcome = "VMExistsError" THEN SideCb(q, FALSE, TRUE)
    ELSE IF outcome = "err" THEN SideCb(q, TRUE, FALSE)
    ELSE IF q.pos < Len(SideOf(CurRule(q), q.side).vms)
         THEN [q EXCEPT !.pc = "vm-pipeline"]
         ELSE [q EXCEPT !.pc = "waiting"]

\* Variant: the end of a vms list is told by a count of lookups that the
\* request shares between its sides and rules.
nextVmCb_SharedCount(q, outcome) ==
    IF outcome = "VMExistsError" THEN SideCb(q, FALSE, TRUE)
    ELSE IF outcome = "err" THEN SideCb(q, TRUE, FALSE)
    ELSE IF Len(q.lookups) < Len(SideOf(CurRule(q), q.side).vms)
         THEN [q EXCEPT !.pc = "vm-pipeline"]
         ELSE SideCb(q, FALSE, FALSE)

\* The VM pipeline of verifyVmsNonExistent after one answer: an error ends it
\* and its final callback nextVmCb runs; with ids left the next lookup waits
\* for a later turn; after the last id nextVmCb runs with every id done.
nextVmCb(q, outcome) ==
    IF outcome = "VMExistsError" THEN SideCb(q, FALSE, TRUE)
    ELSE IF outcome = "err" THEN SideCb(q, TRUE, FALSE)
    ELSE IF q.pos < Len(SideOf(CurRule(q), q.side).vms)
         THEN [q EXCEPT !.pc = "vm-pipeline"]
         ELSE SideCb(q, FALSE, FALSE)

IsFault(err) == err # ErrNone /\ err # ErrNotFound

Count(err) == IF IsFault(err) THEN faults + 1 ELSE faults

-----------------------------------------------------------------------------
(* Actions *)

\* DELETE /firewalls/vms/:uuid arrives: deleteVMrules looks the target up.
deleteVMrules(r, t) ==
    /\ req[r].pc = "idle"
    /\ r <= passes
    /\ \A p \in Reqs : p < r => req[p].pc = "done"
    /\ req' = [req EXCEPT ![r] =
                 [Call(@, "getVm") EXCEPT !.pc = "getVm", !.targ = t]]
    /\ UNCHANGED <<inventory, store, faults, passes>>

\* Variant: a target the inventory no longer holds is garbage-collected for
\* all the same.
getVmCb_NotFoundGoesOn(r) ==
    /\ req[r].pc = "getVm"
    /\ \E resp \in GetVmResponses(req[r].targ) :
        /\ req' = [req EXCEPT ![r] =
                     IF resp.err # ErrNone /\ resp.err # ErrNotFound
                     THEN Respond(Answered(@, resp.err), 503)
                     ELSE [Call(Answered(@, resp.err), "vmRules") EXCEPT
                              !.pc = "vmRules"]]
        /\ faults' = Count(resp.err)
    /\ UNCHANGED <<inventory, store, passes>>

\* Variant: the target's lookup error is handed to next(err), as the read
\* path does.
getVmCb_NextErr(r) ==
    /\ req[r].pc = "getVm"
    /\ \E resp \in GetVmResponses(req[r].targ) :
        /\ req' = [req EXCEPT ![r] =
                     IF resp.err # ErrNone
                     THEN Respond(Answered(@, resp.err), resp.err)
                     ELSE [Call(Answered(@, resp.err), "vmRules") EXCEPT
                              !.pc = "vmRules"]]
        /\ faults' = Count(resp.err)
    /\ UNCHANGED <<inventory, store, passes>>

\* The target's getVm returns: any error is answered 503, else the query starts.
getVmCb(r) ==
    /\ req[r].pc = "getVm"
    /\ \E resp \in GetVmResponses(req[r].targ) :
        /\ req' = [req EXCEPT ![r] =
                     IF resp.err # ErrNone
                     THEN Respond(Answered(@, resp.err), 503)
                     ELSE [Call(Answered(@, resp.err), "vmRules") EXCEPT
                              !.pc = "vmRules"]]
        /\ faults' = Count(resp.err)
    /\ UNCHANGED <<inventory, store, passes>>

\* mod_vasync.forEachPipeline over the candidates: the first is started in
\* the same call; with none the final callback waits for a later turn.
forEachPipeline(q) ==
    IF q.rules = <<>> THEN [q EXCEPT !.pc = "pipeline"]
    ELSE maybeDeleteRule(q)

\* Variant: the query's error is not looked at.
filterCb_IgnoreErr(r) ==
    /\ req[r].pc = "vmRules"
    /\ \E err2 \in {ErrNone} \cup (IF faults < MaxFaults THEN {ErrBackend} ELSE {}) :
        /\ req' = [req EXCEPT ![r] =
                     forEachPipeline([Answered(@, err2) EXCEPT
                                        !.rules = vmRules, !.k = 1])]
        /\ faults' = Count(err2)
    /\ UNCHANGED <<inventory, store, passes>>

\* The candidate query returns: an error is answered 503, else the rule
\* pipeline is started, the first candidate within this callback.
filterCb(r) ==
    /\ req[r].pc = "vmRules"
    /\ \E err2 \in {ErrNone} \cup (IF faults < MaxFaults THEN {ErrBackend} ELSE {}) :
        /\ req' = [req EXCEPT ![r] =
                     IF err2 # ErrNone THEN Respond(Answered(@, err2), 503)
                     ELSE forEachPipeline([Answered(@, err2) EXCEPT
                                             !.rules = vmRules, !.k = 1])]
        /\ faults' = Count(err2)
    /\ UNCHANGED <<inventory, store, passes>>

\* The rule pipeline's turn: maybeDeleteRule is called on the next candidate.
EvalRule(r) ==
    /\ req[r].pc = "pipeline"
    /\ req[r].k <= Len(req[r].rules)
    /\ req' = [req EXCEPT ![r] = maybeDeleteRule(@)]
    /\ UNCHANGED <<inventory, store, faults, passes>>

\* Variant: a completed pass is answered 204, as the earlier handler did.
nextRule_NoContent(r) ==
    /\ req[r].pc = "pipeline"
    /\ req[r].k > Len(req[r].rules)
    /\ req' = [req EXCEPT ![r] = Respond(@, 204)]
    /\ UNCHANGED <<inventory, store, faults, passes>>

\* The turn of a rule pipeline that has no candidate: nextRule sends 200.
nextRule(r) ==
    /\ req[r].pc = "pipeline"
    /\ req[r].k > Len(req[r].rules)
    /\ req' = [req EXCEPT ![r] = Respond(@, 200)]
    /\ UNCHANGED <<inventory, store, faults, passes>>

\* The VM pipeline's turn: checkVMExists is called on the next id.
nextVm(r) ==
    /\ req[r].pc = "vm-pipeline"
    /\ req' = [req EXCEPT ![r] = checkVMExists(@, @.side, @.pos + 1, @.cb)]
    /\ UNCHANGED <<inventory, store, faults, passes>>

\* A probe's getVm returns.
LookupReturns(r) ==
    /\ req[r].pc = "lookup"
    /\ LET q == req[r]
           id == SideOf(CurRule(q), q.side).vms[q.pos] IN
        \E resp \in GetVmResponses(id) :
            /\ req' = [req EXCEPT ![r] =
                         nextVmCb([Answered(q, resp.err) EXCEPT !.answers =
                                       Append(@, nextVmWrap(q.targ, resp))],
                                  nextVmWrap(q.targ, resp))]
            /\ faults' = Count(resp.err)
    /\ UNCHANGED <<inventory, store, passes>>

\* Variant: a delete that failed is issued once more.
deleteCb_RetryOnError(r) ==
    /\ req[r].pc = "deleteRule"
    /\ LET q == req[r]
           uuid == CurRule(q).uuid IN
        \E err3 \in DeleteRuleResponses(uuid) :
            /\ req' = [req EXCEPT ![r] =
                         IF err3 # ErrNone /\ err3 # ErrNotFound
                         THEN deleteRule(Answered(q, err3))
                         ELSE nextRuleCb(Answered(q, err3), "Delete")]
            /\ store' = IF err3 = ErrNone THEN Without(store, uuid) ELSE store
            /\ faults' = Count(err3)
    /\ UNCHANGED <<inventory, passes>>

\* Variant: a rule the store no longer holds counts as kept, not as deleted.
deleteCb_NotFoundIsKeep(r) ==
    /\ req[r].pc = "deleteRule"
    /\ LET q == req[r]
           uuid == CurRule(q).uuid IN
        \E err3 \in DeleteRuleResponses(uuid) :
            /\ req' = [req EXCEPT ![r] =
                         IF err3 = ErrNone
                         THEN nextRuleCb(Answered(q, err3), "Delete")
                         ELSE IF err3 = ErrNotFound
                              THEN nextRuleCb(Answered(q, err3), "Keep")
                              ELSE nextRuleCb(Answered(q, err3), "Fail")]
            /\ store' = IF err3 = ErrNone THEN Without(store, uuid) ELSE store
            /\ faults' = Count(err3)
    /\ UNCHANGED <<inventory, passes>>

\* Variant: any error of the delete fails the rule, a 404 included.
deleteCb_NotFoundFails(r) ==
    /\ req[r].pc = "deleteRule"
    /\ LET q == req[r]
           uuid == CurRule(q).uuid IN
        \E err3 \in DeleteRuleResponses(uuid) :
            /\ req' = [req EXCEPT ![r] =
                         IF err3 # ErrNone
                         THEN nextRuleCb(Answered(q, err3), "Fail")
                         ELSE nextRuleCb(Answered(q, err3), "Delete")]
            /\ store' = IF err3 = ErrNone THEN Without(store, uuid) ELSE store
            /\ faults' = Count(err3)
    /\ UNCHANGED <<inventory, passes>>

\* The store's delete returns: deleteCb.
deleteCb(r) ==
    /\ req[r].pc = "deleteRule"
    /\ LET q == req[r]
           uuid == CurRule(q).uuid IN
        \E err3 \in DeleteRuleResponses(uuid) :
            /\ req' = [req EXCEPT ![r] =
                         IF err3 # ErrNone /\ err3 # ErrNotFound
                         THEN nextRuleCb(Answered(q, err3), "Fail")
                         ELSE nextRuleCb(Answered(q, err3), "Delete")]
            /\ store' = IF err3 = ErrNone THEN Without(store, uuid) ELSE store
            /\ faults' = Count(err3)
    /\ UNCHANGED <<inventory, passes>>

-----------------------------------------------------------------------------
(* The restify routes: validateParams, then getVMrules or deleteVMrules *)

\* The well-formed UUIDs among the strings a request can carry
UUIDs == VMs \cup {"owner1", "owner2"}

validateUUID(str) == str \in UUIDs

\* req.params: :uuid, with or without an owner_uuid
Params ==
    {[uuid |-> u] : u \in {"A", "B", "not-a-uuid"}}
    \cup {[uuid |-> u, owner_uuid |-> o] :
            u \in {"A", "B", "not-a-uuid"}, o \in {"owner1", "not-a-uuid"}}

Methods == {"GET", "DELETE"}

\* Variant: a missing owner_uuid is validated like a present one.
validateParams_OwnerRequired(params) ==
    IF ~validateUUID(params.uuid) THEN "uuid"
    ELSE IF "owner_uuid" \notin DOMAIN params THEN "owner_uuid"
    ELSE IF ~validateUUID(params.owner_uuid) THEN "owner_uuid"
    ELSE "ok"

\* validateParams: the parameter an InvalidParamsError is raised for, or "ok"
validateParams(params) ==
    IF ~validateUUID(params.uuid) THEN "uuid"
    ELSE IF "owner_uuid" \in DOMAIN params /\ ~validateUUID(params.owner_uuid)
         THEN "owner_uuid"
    ELSE "ok"

\* next(new mod_err.InvalidParamsError(..., [invalidParam(field, 'Invalid UUID')]))
InvalidParamsError(q, field) ==
    [Respond(q, 422) EXCEPT
        !.body = <<[field |-> field, code |-> "InvalidParameter",
                    message |-> "Invalid UUID"]>>]

\* r.serialize(): the rule as it goes on the wire
serialize(rule) == [uuid |-> rule.uuid, rule |-> rule]

\* A request arrives on one of the two routes: validateParams runs, then the
\* route's handler, up to its first backend call.
Receive(r, method, params) ==
    /\ req[r].pc = "idle"
    /\ r <= passes
    /\ req' = [req EXCEPT ![r] =
                 LET q == [@ EXCEPT !.method = method, !.params = params] IN
                 IF validateParams(params) # "ok"
                 THEN InvalidParamsError(q, validateParams(params))
                 ELSE [Call(q, "getVm") EXCEPT
                          !.pc = IF method = "GET" THEN "get.getVm" ELSE "getVm",
                          !.targ = params.uuid]]
    /\ UNCHANGED <<inventory, store, faults, passes>>

\* Variant: a failed lookup is answered 503, as the write path does.
getVMrulesVmCb_Unavailable(r) ==
    /\ req[r].pc = "get.getVm"
    /\ \E resp \in GetVmResponses(req[r].targ) :
        /\ req' = [req EXCEPT ![r] =
                     IF resp.err # ErrNone
                     THEN Respond(Answered(@, resp.err), 503)
                     ELSE [Call(Answered(@, resp.err), "vmRules") EXCEPT
                              !.pc = "get.vmRules",
                              !.filter = [owner_uuid |-> resp.owner_uuid,
                                          tags |-> resp.tags,
                                          vms |-> <<resp.uuid>>]]]
        /\ faults' = Count(resp.err)
    /\ UNCHANGED <<inventory, store, passes>>

\* getVMrules, the getVm callback: an error goes to next(err), which answers
\* with the error's status code; otherwise the query goes out.
getVMrulesVmCb(r) ==
    /\ req[r].pc = "get.getVm"
    /\ \E resp \in GetVmResponses(req[r].targ) :
        /\ req' = [req EXCEPT ![r] =
                     IF resp.err # ErrNone
                     THEN Respond(Answered(@, resp.err), resp.err)
                     ELSE [Call(Answered(@, resp.err), "vmRules") EXCEPT
                              !.pc = "get.vmRules",
                              !.filter = [owner_uuid |-> resp.owner_uuid,
                                          tags |-> resp.tags,
                                          vms |-> <<resp.uuid>>]]]
        /\ faults' = Count(resp.err)
    /\ UNCHANGED <<inventory, store, passes>>

\* getVMrules, the vmRules callback: next(err2), or 200 with the rules
\* serialized.
getVMrulesRulesCb(r) ==
    /\ req[r].pc = "get.vmRules"
    /\ \E err2 \in {ErrNone} \cup (IF faults < MaxFaults THEN {ErrBackend} ELSE {}) :
        /\ req' = [req EXCEPT ![r] =
                     IF err2 # ErrNone THEN Respond(Answered(@, err2), err2)
                     ELSE [Respond(Answered(@, err2), 200) EXCEPT
                              !.rules = vmRules,
                              !.body = [i \in 1..Len(vmRules) |->
                                           serialize(vmRules[i])]]]
        /\ faults' = Count(err2)
    /\ UNCHANGED <<inventory, store, passes>>

Next ==
    \E r \in Reqs :
        \/ \E t \in VMs : deleteVMrules(r, t)
        \/ getVmCb(r)
        \/ filterCb(r)
        \/ EvalRule(r)
        \/ nextRule(r)
        \/ nextVm(r)
        \/ LookupReturns(r)
        \/ deleteCb(r)

Inventories == [VMs -> VmStates]

\* The rule shapes the integration tests create, over three VMs.
NoSide == Side(<<>>, <<>>, <<>>, <<>>, <<>>)
VmSide(v) == Side(<<>>, <<>>, <<>>, <<>>, v)
AnySide == Side(<<"any">>, <<>>, <<>>, <<>>, <<>>)
AllSide == Side(<<"vmall">>, <<>>, <<>>, <<>>, <<>>)
TagSide == Side(<<>>, <<>>, <<>>, <<"mytag">>, <<>>)

TestRules(u) ==
    {Rule(u, <<>>, VmSide(<<"A">>), AnySide),             \* singularToAny
     Rule(u, <<>>, AnySide, AllSide),                     \* singularFromAnyToAll
     Rule(u, <<"mytag">>, TagSide, VmSide(<<"A">>)),      \* singularFromTag
     Rule(u, <<>>, VmSide(<<"A">>), VmSide(<<"B">>)),     \* singularFrom
     Rule(u, <<>>, VmSide(<<"A", "B">>), AllSide),        \* pluralFromAll
     Rule(u, <<>>, VmSide(<<"B", "C">>), VmSide(<<"A", "C">>))}  \* smallPlural

\* No stored rule, one of any shape, or a test rule followed by a second
\* rule
OneRuleStores ==
    {<<>>} \cup {<<rule>> : rule \in Rules}
    \cup {<<rule, Rule(2, <<>>, VmSide(<<"A">>), AnySide)>> : rule \in TestRules(1)}

\* One DELETE request
Init ==
    /\ inventory \in Inventories
    /\ store \in OneRuleStores
    /\ faults = 0
    /\ passes = 1
    /\ req = [r \in Reqs |-> IdleReq]

Spec == Init /\ [][Next]_vars

Stores ==
    UNION {{s \in [1..n -> UNION {TestRules(u) : u \in 1..n}] :
                \A i \in 1..n : s[i].uuid = i} : n \in 0..MaxRules}

\* A store of test rules, DELETE requests one after the other.
InitPasses ==
    /\ inventory \in Inventories
    /\ store \in Stores
    /\ faults = 0
    /\ passes = Cardinality(Reqs)
    /\ req = [r \in Reqs |-> IdleReq]

SpecPasses == InitPasses /\ [][Next]_vars

\* Stores for the runs to completion: no candidate, or candidates with empty,
\* short and long vms lists.
LiveRules(u) ==
    {Rule(u, <<>>, NoSide, NoSide),
     Rule(u, <<>>, NoSide, VmSide(<<"A", "B", "C">>)),
     Rule(u, <<>>, VmSide(<<"B", "C">>), VmSide(<<"A", "C">>)),
     Rule(u, <<>>, VmSide(<<"A">>), AnySide),
     Rule(u, <<"mytag">>, TagSide, VmSide(<<"A">>))}

LiveStores ==
    UNION {{s \in [1..n -> UNION {LiveRules(u) : u \in 1..n}] :
                \A i \in 1..n : s[i].uuid = i} : n \in 0..MaxRules}

InitLive ==
    /\ inventory \in Inventories
    /\ store \in LiveStores
    /\ faults = 0
    /\ passes = Cardinality(Reqs)
    /\ req = [r \in Reqs |-> IdleReq]

\* Every backend call returns, and a callback that is due runs.
Fairness ==
    \A r \in Reqs :
        /\ WF_vars(getVmCb(r))
        /\ WF_vars(filterCb(r))
        /\ WF_vars(EvalRule(r))
        /\ WF_vars(nextRule(r))
        /\ WF_vars(nextVm(r))
        /\ WF_vars(LookupReturns(r))
        /\ WF_vars(deleteCb(r))

SpecLive == InitLive /\ [][Next]_vars /\ Fairness

\* Two requests on the routes, GET or DELETE, that may overlap
NextHttp ==
    \E r \in Reqs :
        \/ \E method \in Methods : \E params \in Params : Receive(r, method, params)
        \/ getVMrulesVmCb(r)
        \/ getVMrulesRulesCb(r)
        \/ getVmCb(r)
        \/ filterCb(r)
        \/ EvalRule(r)
        \/ nextRule(r)
        \/ nextVm(r)
        \/ LookupReturns(r)
        \/ deleteCb(r)

\* The stores of the routes' runs: up to two rules, each one-structural or
\* VM-bound on both sides
HttpRules(u) ==
    {Rule(u, <<>>, VmSide(<<"A">>), AnySide),
     Rule(u, <<>>, VmSide(<<"B">>), VmSide(<<"A", "C">>))}

HttpStores ==
    {<<>>} \cup {<<r1>> : r1 \in HttpRules(1)}
    \cup {<<r1, r2>> : r1 \in HttpRules(1), r2 \in HttpRules(2)}

\* C, which no request targets, is running or unknown to the inventory.
HttpInventories == {inv \in Inventories : inv["C"] # "destroyed"}

InitHttp ==
    /\ inventory \in HttpInventories
    /\ store \in HttpStores
    /\ faults = 0
    /\ passes = Cardinality(Reqs)
    /\ req = [r \in Reqs |-> IdleReq]

SpecHttp == InitHttp /\ [][NextHttp]_vars

\* Overlapping requests for A and for B over one rule from [A, B] to a
\* structural side
RaceRules(u) ==
    {Rule(u, <<>>, VmSide(<<"A", "B">>), AllSide),
     Rule(u, <<>>, VmSide(<<"A", "B">>), AnySide)}

\* The rule alone, or followed by a rule that is structural on both sides
RaceStores ==
    {<<rule>> : rule \in RaceRules(1)}
    \cup {<<Rule(1, <<>>, VmSide(<<"A", "B">>), AllSide),
             Rule(2, <<>>, AnySide, AllSide)>>}

InitRace ==
    /\ inventory \in Inventories
    /\ store \in RaceStores
    /\ faults = 0
    /\ passes = Cardinality(Reqs)
    /\ req = [r \in Reqs |-> IdleReq]

SpecRace == InitRace /\ [][NextHttp]_vars

-----------------------------------------------------------------------------
(* lib/util/validate.js: the validators of the list parameters *)

\* A parameter value: a string, or an array of strings
Str(s) == [str |-> s]
Arr(a) == [arr |-> a]

\* typeof (val) == 'string'
IsString(val) == "str" \in DOMAIN val

Uuid1 == "8a2eb3a0-6a1e-4c3b-9d57-0c6f6e1c9d01"
Uuid2 == "3f0c2d3e-97b5-4d8a-8d5c-5b1d0a7c2e02"

\* constants.UUID_REGEX.test(uuid), on the strings of the runs
validUUID(uuid) == uuid \in {Uuid1, Uuid2}

\* net.isIP(ip): 4, 6, or 0 for what is no address
isIP(ip) ==
    IF ip \in {"8.8.8.8", "4.4.4.4", "10.8.0.0", "10.7.0.0"} THEN 4
    ELSE IF ip \in {"fd00::"} THEN 6
    ELSE 0

\* A JavaScript number: NaN, or an integer
NaN == [nan |-> TRUE, val |-> 0]
Num(n) == [nan |-> FALSE, val |-> n]

\* a === b on numbers: NaN is equal to nothing, itself included
StrictEquals(a, b) == ~a.nan /\ ~b.nan /\ a.val = b.val

\* a > k on numbers: false for NaN
GreaterThan(a, k) == ~a.nan /\ a.val > k

\* Number(mask), on the strings of the runs: the empty string is 0
Number(mask) ==
    CASE mask = "" -> Num(0)
      [] mask = "0" -> Num(0)
      [] mask = "16" -> Num(16)
      [] mask = "31" -> Num(31)
      [] mask = "32" -> Num(32)
      [] mask = "64" -> Num(64)
      [] mask = "127" -> Num(127)
      [] mask = "128" -> Num(128)
      [] OTHER -> NaN

\* subnet.split('/'), on the strings of the runs
split(subnet) ==
    CASE subnet = "10.8.0.0/16" -> <<"10.8.0.0", "16">>
      [] subnet = "10.7.0.0/16" -> <<"10.7.0.0", "16">>
      [] subnet = "10.8.0.0/31" -> <<"10.8.0.0", "31">>
      [] subnet = "10.8.0.0/32" -> <<"10.8.0.0", "32">>
      [] subnet = "10.8.0.0/abc" -> <<"10.8.0.0", "abc">>
      [] subnet = "10.8.0.0/" -> <<"10.8.0.0", "">>
      [] subnet = "10.8.0.0/16/1" -> <<"10.8.0.0", "16", "1">>
      [] subnet = "fd00::/127" -> <<"fd00::", "127">>
      [] subnet = "fd00::/128" -> <<"fd00::", "128">>
      [] subnet = "fd00::/x" -> <<"fd00::", "x">>
      [] subnet = "16/16" -> <<"16", "16">>
      [] OTHER -> <<subnet>>

\* mod_err.invalidParamErr(type, field), as the tests read it
invalidParamErr(type, field) ==
    [code |-> "InvalidParameter", field |-> field, message |-> "Invalid " \o type]

\* What a validator does: it returns, or it throws an error
Returns == [code |-> "none", field |-> "none", message |-> "none"]

\* _validateSubnet(name, subnet): TRUE when it returns, FALSE when it throws
_validateSubnet(subnet) ==
    LET subnetArr == split(subnet) IN
    IF Len(subnetArr) # 2 THEN FALSE
    ELSE LET is_ip == isIP(subnetArr[1])
             nmask == Number(subnetArr[2]) IN
         IF is_ip = 0 THEN FALSE
         ELSE IF StrictEquals(nmask, NaN) THEN FALSE
         ELSE IF is_ip = 4 /\ GreaterThan(nmask, 31) THEN FALSE
         ELSE IF is_ip = 6 /\ GreaterThan(nmask, 127) THEN FALSE
         ELSE TRUE

\* The function forEach calls on each element: TRUE when it returns
Callback(fn, item) ==
    CASE fn = "validUUID" -> validUUID(item)
      [] fn = "isIP" -> isIP(item) # 0
      [] fn = "_validateSubnet" -> _validateSubnet(item)

\* array.forEach(fn): the first element on which fn throws ends the walk
\* with its error; all elements fail with the same one
RECURSIVE forEach(_, _, _)
forEach(items, fn, err) ==
    IF items = <<>> THEN Returns
    ELSE IF ~Callback(fn, Head(items)) THEN err
    ELSE forEach(Tail(items), fn, err)

\* Called as validators.optional[v](v, params[v]): its one parameter is the
\* name of the parameter.
validateOwnerUUID(uuid) ==
    IF ~validUUID(uuid) THEN invalidParamErr("Owner UUID", "owner_uuid")
    ELSE Returns

\* Variant: of an array only the first element is looked at.
validateVm_FirstOnly(name, uuid) ==
    IF IsString(uuid)
    THEN IF ~validUUID(uuid.str) THEN invalidParamErr("VM", "vm") ELSE Returns
    ELSE IF uuid.arr # <<>> /\ ~validUUID(uuid.arr[1])
         THEN invalidParamErr("VM", "vm") ELSE Returns

validateVm(name, uuid) ==
    IF IsString(uuid)
    THEN IF ~validUUID(uuid.str) THEN invalidParamErr("VM", "vm") ELSE Returns
    ELSE forEach(uuid.arr, "validUUID", invalidParamErr("VM", "vm"))

validateIp(name, ip) ==
    IF IsString(ip)
    THEN IF isIP(ip.str) = 0 THEN invalidParamErr("IP Addr", "ip") ELSE Returns
    ELSE forEach(ip.arr, "isIP", invalidParamErr("IP Addr", "ip"))

validateSubnet(name, subnet) ==
    IF IsString(subnet)
    THEN IF _validateSubnet(subnet.str) THEN Returns
         ELSE invalidParamErr("Subnet", "subnet")
    ELSE forEach(subnet.arr, "_validateSubnet", invalidParamErr("Subnet", "subnet"))

\* validators.optional of the list endpoint: the validators, in the order
\* of the table
ListValidators == <<"owner_uuid", "ip", "vm", "subnet">>

\* validators.optional[v](v, params[v])
Validator(v, name, val) ==
    CASE v = "owner_uuid" -> validateOwnerUUID(name)
      [] v = "ip" -> validateIp(name, val)
      [] v = "vm" -> validateVm(name, val)
      [] v = "subnet" -> validateSubnet(name, val)

\* The errors the validators of the present parameters throw, in order
RECURSIVE collect(_, _)
collect(validators, params) ==
    IF validators = <<>> THEN <<>>
    ELSE LET v == Head(validators)
             rest == collect(Tail(validators), params) IN
         IF v \notin DOMAIN params THEN rest
         ELSE LET e == Validator(v, v, params[v]) IN
              IF e = Returns THEN rest ELSE <<e>> \o rest

\* The parameters whose validator returned
Validated(validators, params) ==
    {validators[i] : i \in {j \in 1..Len(validators) :
        /\ validators[j] \in DOMAIN params
        /\ Validator(validators[j], validators[j], params[validators[j]]) = Returns}}

\* Variant: the first error is thrown alone.
validate_params_FirstError(validators, params) ==
    LET errs == collect(validators, params) IN
    IF errs # <<>>
    THEN [threw |-> TRUE, name |-> "InvalidParamsError",
          message |-> "Invalid parameters", errors |-> <<errs[1]>>, results |-> {}]
    ELSE [threw |-> FALSE, name |-> "none", message |-> "none", errors |-> <<>>,
          results |-> Validated(validators, params)]

\* validateParams(validators, params) of validate.js: what it throws, or
\* the keys of the results it returns
validate_params(validators, params) ==
    LET errs == collect(validators, params) IN
    IF errs # <<>>
    THEN [threw |-> TRUE, name |-> "InvalidParamsError",
          message |-> "Invalid parameters", errors |-> errs, results |-> {}]
    ELSE [threw |-> FALSE, name |-> "none", message |-> "none", errors |-> <<>>,
          results |-> Validated(validators, params)]

\* The values of the runs, per parameter; Absent: the parameter is not sent
Absent == [absent |-> TRUE]

OwnerValues == {Str(Uuid1), Str("not-a-uuid")}

VmValues ==
    {Str(Uuid1), Str("not-a-vm"), Str("42"), Arr(<<>>), Arr(<<Uuid1, Uuid2>>),
     Arr(<<Uuid1, "not-a-vm">>), Arr(<<"42", Uuid2>>)}

IpValues ==
    {Str("8.8.8.8"), Str("not-an-ip"), Str("42"), Arr(<<>>),
     Arr(<<"8.8.8.8", "4.4.4.4">>), Arr(<<"8.8.8.8", "not-an-ip">>),
     Arr(<<"42", "4.4.4.4">>)}

SubnetStrings ==
    {"10.8.0.0/16", "10.8.0.0/31", "10.8.0.0/32", "10.8.0.0/abc", "10.8.0.0/",
     "10.8.0.0/16/1", "fd00::/127", "fd00::/128", "fd00::/x", "16/16",
     "not-a-subnet", "42"}

SubnetValues ==
    {Str(x) : x \in SubnetStrings}
    \cup {Arr(<<>>), Arr(<<"10.8.0.0/16", "10.7.0.0/16">>),
          Arr(<<"10.8.0.0/16", "not-a-subnet">>), Arr(<<"42", "10.7.0.0/16">>),
          Arr(<<"10.8.0.0/abc", "10.8.0.0/16">>)}

ListParams ==
    {[n \in {m \in {"owner_uuid", "ip", "vm", "subnet"} : full[m] # Absent}
        |-> full[n]] :
     full \in [owner_uuid : OwnerValues \cup {Absent}, ip : IpValues \cup {Absent},
               vm : VmValues \cup {Absent}, subnet : SubnetValues \cup {Absent}]}

\* GET /rules arrives with its parameters
listRules(r, params) ==
    /\ req[r].pc = "idle"
    /\ r <= passes
    /\ req' = [req EXCEPT ![r] =
                 [@ EXCEPT !.pc = "validate", !.method = "GET", !.params = params]]
    /\ UNCHANGED <<inventory, store, faults, passes>>

\* validate.params runs: what it throws is answered 422, else the rules
\* are listed.
validateList(r) ==
    /\ req[r].pc = "validate"
    /\ LET out == validate_params(ListValidators, req[r].params) IN
        req' = [req EXCEPT ![r] =
                  IF out.threw
                  THEN [Respond(@, 422) EXCEPT !.body = out]
                  ELSE [@ EXCEPT !.pc = "list", !.body = out]]
    /\ UNCHANGED <<inventory, store, faults, passes>>

\* The list is answered
listRulesCb(r) ==
    /\ req[r].pc = "list"
    /\ req' = [req EXCEPT ![r] = Respond(@, 200)]
    /\ UNCHANGED <<inventory, store, faults, passes>>

NextList ==
    \E r \in Reqs :
        \/ \E params \in ListParams : listRules(r, params)
        \/ validateList(r)
        \/ listRulesCb(r)

\* One list request over an empty store
InitList ==
    /\ inventory = [id \in VMs |-> "running"]
    /\ store = <<>>
    /\ faults = 0
    /\ passes = 1
    /\ req = [r \in Reqs |-> IdleReq]

SpecList == InitList /\ [][NextList]_vars

-----------------------------------------------------------------------------
(* Vocabulary of the properties, stated on the inventory and the logs *)

Range(s) == {s[j] : j \in 1..Len(s)}

InStore(uuid) == \E i \in 1..Len(store) : store[i].uuid = uuid

\* A live VM: found, not the target of the pass, not destroyed.
Live(id, targ) == inventory[id] \notin {"absent", "destroyed"} /\ id # targ

HasLive(vms, targ) == \E j \in 1..Len(vms) : Live(vms[j], targ)

\* The spec's isStructural.
Structural(side) ==
    side.wildcards # <<>> \/ side.ips # <<>> \/ side.subnets # <<>>

\* The positions in q.lookups of the lookups issued for one side of candidate i
LookupsFor(q, i, side) ==
    {j \in 1..Len(q.lookups) : q.lookups[j].rule = i /\ q.lookups[j].side = side}

LookupsOfRule(q, i) == {j \in 1..Len(q.lookups) : q.lookups[j].rule = i}

\* A lookup made for candidate i was answered with a non-404 error.
LookupFailed(q, i) ==
    \E j \in 1..Len(q.answers) : q.answers[j] = "err" /\ q.lookups[j].rule = i

DeleteIssued(q, i) == q.rules[i].uuid \in Range(q.deletes)

-----------------------------------------------------------------------------
(* C1: tag exemption *)

\* C1: a candidate whose rule-level tags is non-empty is kept by the pass,
\* whatever its sides hold: no inventory lookup and no store delete is issued
\* for it, its outcome is Keep, and it is still in the store.
C1_TagExemption ==
    \A r \in Reqs : LET q == req[r] IN
        \A i \in 1..Len(q.rules) :
            Len(q.rules[i].tags) > 0 =>
                /\ LookupsOfRule(q, i) = {}
                /\ ~DeleteIssued(q, i)
                /\ (i <= Len(q.decisions) => q.decisions[i] = "Keep")
                /\ InStore(q.rules[i].uuid)

C1_Witness ==
    \E r \in Reqs : LET q == req[r] IN
        /\ q.pc = "done" /\ q.sent = <<200>> /\ q.targ = "A"
        /\ Len(q.rules) = 1
        /\ q.rules[1].tags = <<"foo">>
        /\ q.rules[1].from.vms = <<"A">>
        /\ q.decisions = <<"Keep">>
        /\ InStore(q.rules[1].uuid)

-----------------------------------------------------------------------------
(* C2: exactly one structural side *)

BoundSide(rule) == IF Structural(rule.from) THEN rule.to ELSE rule.from

\* C2: for an evaluated candidate with empty rule-level tags, exactly one
\* structural side and a non-empty vms list on the other side, none of whose
\* lookups failed: a store delete is issued iff no id of that vms list is a
\* live VM, the outcome is Keep iff one is, and a rule whose outcome is Delete
\* has left the store.
C2_OneStructural ==
    \A r \in Reqs : LET q == req[r] IN
        \A i \in 1..Len(q.decisions) : LET rule == q.rules[i] IN
            ( /\ rule.tags = <<>>
              /\ Structural(rule.from) # Structural(rule.to)
              /\ BoundSide(rule).vms # <<>>
              /\ ~LookupFailed(q, i) ) =>
                /\ DeleteIssued(q, i) <=> ~HasLive(BoundSide(rule).vms, q.targ)
                /\ q.decisions[i] = "Keep" <=> HasLive(BoundSide(rule).vms, q.targ)
                /\ (q.decisions[i] = "Delete" => ~InStore(rule.uuid))

\* from.vms = [A], to.wildcards = ['any'], target A: deleted.
C2_Witness ==
    \E r \in Reqs : LET q == req[r] IN
        /\ q.pc = "done" /\ q.sent = <<200>> /\ q.targ = "A"
        /\ Len(q.rules) = 1
        /\ q.rules[1].tags = <<>>
        /\ q.rules[1].from.vms = <<"A">> /\ ~Structural(q.rules[1].from)
        /\ q.rules[1].to.wildcards = <<"any">>
        /\ q.decisions = <<"Delete">>
        /\ q.lookups = <<[rule |-> 1, side |-> "from", vm |-> "A"]>>
        /\ store = <<>>

-----------------------------------------------------------------------------
(* C3: both sides VM-bound *)

\* C3: for an evaluated candidate with empty rule-level tags, no structural
\* side and two non-empty vms lists, none of whose lookups failed: a store
\* delete is issued iff one of the two sides has no live member, and the
\* outcome is Keep iff both sides have one.  The condition is symmetric in the
\* two sides, so the outcome does not depend on the side probed first.
C3_BothVmBound ==
    \A r \in Reqs : LET q == req[r] IN
        \A i \in 1..Len(q.decisions) : LET rule == q.rules[i] IN
            ( /\ rule.tags = <<>>
              /\ ~Structural(rule.from) /\ ~Structural(rule.to)
              /\ rule.from.vms # <<>> /\ rule.to.vms # <<>>
              /\ ~LookupFailed(q, i) ) =>
                /\ DeleteIssued(q, i) <=>
                       (~HasLive(rule.from.vms, q.targ) \/ ~HasLive(rule.to.vms, q.targ))
                /\ q.decisions[i] = "Keep" <=>
                       (HasLive(rule.from.vms, q.targ) /\ HasLive(rule.to.vms, q.targ))
                /\ (q.decisions[i] = "Delete" => ~InStore(rule.uuid))

\* Both outcomes happen: a rule kept because both sides have a live member ...
C3_Witness ==
    \E r \in Reqs : LET q == req[r] IN
        /\ q.pc = "done" /\ q.sent = <<200>>
        /\ Len(q.rules) = 1
        /\ q.rules[1].tags = <<>>
        /\ ~Structural(q.rules[1].from) /\ ~Structural(q.rules[1].to)
        /\ Len(q.rules[1].from.vms) = 2 /\ Len(q.rules[1].to.vms) = 2
        /\ q.targ \in Range(q.rules[1].from.vms)
        /\ q.decisions = <<"Keep">>
        /\ LookupsFor(q, 1, "from") # {} /\ LookupsFor(q, 1, "to") # {}

-----------------------------------------------------------------------------
(* C4: live sibling *)

LiveSiblingCase(q) ==
    /\ q.pc = "done" /\ q.sent = <<200>> /\ q.targ = "A"
    /\ q.rules = <<Rule(1, <<>>, VmSide(<<"A">>), VmSide(<<"B", "C">>))>>
    /\ inventory["B"] = "destroyed" /\ inventory["C"] = "running"

\* C4 as claimed: from.vms = [A], to.vms = [B, C], target A, B destroyed and C
\* alive: the rule still exists after DELETE on A.
C4_Original ==
    \A r \in Reqs : LiveSiblingCase(req[r]) => InStore(1)

\* C4 as amended: in that case the rule is deleted by DELETE on A: its from
\* side has no live member once the target A is ignored, although C, on the
\* to side, is alive.
C4_LiveSiblingDeleted ==
    \A r \in Reqs :
        LiveSiblingCase(req[r]) =>
            /\ ~InStore(1)
            /\ req[r].decisions = <<"Delete">>
            /\ req[r].deletes = <<1>>

C4_Witness ==
    \E r \in Reqs :
        /\ LiveSiblingCase(req[r])
        /\ req[r].lookups = <<[rule |-> 1, side |-> "to", vm |-> "B"],
                              [rule |-> 1, side |-> "to", vm |-> "C"],
                              [rule |-> 1, side |-> "from", vm |-> "A"]>>
        /\ store = <<>>

-----------------------------------------------------------------------------
(* C5: both VM-bound sides dead *)

BothDeadCase(q) ==
    /\ q.targ = "A"
    /\ q.rules = <<Rule(1, <<>>, VmSide(<<"A">>), VmSide(<<"B">>))>>
    /\ inventory["B"] = "destroyed"

\* C5: from.vms = [A], to.vms = [B], target A, B destroyed: the rule is
\* deleted and no lookup is issued for an id of the to side.  The handler
\* probes the to side first and looks B up.
C5_Original ==
    \A r \in Reqs : LET q == req[r] IN
        BothDeadCase(q) =>
            /\ LookupsFor(q, 1, "to") = {}
            /\ (q.sent = <<200>> => ~InStore(1))

-----------------------------------------------------------------------------
(* C6: a wildcard side against a side that carries only side-level tags *)

OnlySideTags(side) ==
    /\ side.tags # <<>>
    /\ side.vms = <<>> /\ side.ips = <<>>
    /\ side.subnets = <<>> /\ side.wildcards = <<>>

\* C6: a rule with from.wildcards = ['any'], a to side that carries only
\* side-level tags, and empty rule-level tags is never deleted by a DELETE
\* call, for any target and any inventory: no delete is issued for it and it
\* stays in the store.
C6_Permanence ==
    \A r \in Reqs : LET q == req[r] IN
        \A i \in 1..Len(q.rules) : LET rule == q.rules[i] IN
            ( /\ rule.tags = <<>>
              /\ rule.from.wildcards = <<"any">>
              /\ OnlySideTags(rule.to) ) =>
                ~DeleteIssued(q, i) /\ InStore(rule.uuid)

-----------------------------------------------------------------------------
(* C7: an empty VM-bound side *)

EmptyBoundSide(rule) ==
    \/ /\ Structural(rule.from) # Structural(rule.to)
       /\ BoundSide(rule).vms = <<>>
    \/ /\ ~Structural(rule.from) /\ ~Structural(rule.to)
       /\ (rule.from.vms = <<>> \/ rule.to.vms = <<>>)

\* C7: a candidate with empty rule-level tags that has a non-structural side
\* with an empty vms list is kept: no inventory lookup and no store delete is
\* issued for it, its outcome is Keep, and the pass goes on to the next rule.
C7_EmptySideKept ==
    \A r \in Reqs : LET q == req[r] IN
        \A i \in 1..Len(q.rules) : LET rule == q.rules[i] IN
            (rule.tags = <<>> /\ EmptyBoundSide(rule)) =>
                /\ LookupsOfRule(q, i) = {}
                /\ ~DeleteIssued(q, i)
                /\ (i <= Len(q.decisions) => q.decisions[i] = "Keep")

-----------------------------------------------------------------------------
(* C8: probe cost bound *)

\* C8: a side's vms list is probed in list order, and the first id answered
\* as a live VM ends the probe: no later lookup is issued for that side.  A
\* side whose first id is live gets at most one lookup, and exactly one once
\* it has been probed and answered.
C8_ShortCircuit ==
    \A r \in Reqs : LET q == req[r] IN
        /\ \A j \in 1..Len(q.answers) :
               q.answers[j] = "VMExistsError" =>
                   \A j2 \in (j + 1)..Len(q.lookups) :
                       ~ ( /\ q.lookups[j2].rule = q.lookups[j].rule
                           /\ q.lookups[j2].side = q.lookups[j].side )
        /\ \A i \in 1..Len(q.rules) : \A s \in {"from", "to"} :
               LET vms == SideOf(q.rules[i], s).vms
                   mine == LookupsFor(q, i, s) IN
               /\ \A j \in mine :
                      LET n == Cardinality({j2 \in mine : j2 <= j}) IN
                      n <= Len(vms) /\ q.lookups[j].vm = vms[n]
               /\ (vms # <<>> /\ Live(vms[1], q.targ)) => Cardinality(mine) <= 1

\* A side [X, Y, Z] with X live, probed with exactly one lookup.
C8_Witness ==
    \E r \in Reqs : LET q == req[r] IN
        \E s \in {"from", "to"} : LET vms == SideOf(q.rules[1], s).vms IN
            /\ q.pc = "done" /\ Len(q.rules) = 1
            /\ Len(vms) = 3 /\ Live(vms[1], q.targ)
            /\ Cardinality(LookupsFor(q, 1, s)) = 1
            /\ \E j \in LookupsFor(q, 1, s) : q.answers[j] = "VMExistsError"

-----------------------------------------------------------------------------
(* C9: fault propagation *)

\* C9: when a lookup made for candidate k is answered with a non-404 error,
\* the request is over with the single response 503, k's outcome is Fail and
\* no delete was issued for k, and no later candidate was evaluated: every
\* lookup is for a candidate up to k, the failed lookup is the last one, and
\* every delete is for a candidate before k.
C9_FaultPropagation ==
    \A r \in Reqs : LET q == req[r] IN
        \A j \in 1..Len(q.answers) :
            q.answers[j] = "err" =>
                LET k == q.lookups[j].rule IN
                /\ q.pc = "done" /\ q.sent = <<503>>
                /\ ~DeleteIssued(q, k)
                /\ Len(q.decisions) = k /\ q.decisions[k] = "Fail"
                /\ j = Len(q.lookups)
                /\ \A j2 \in 1..Len(q.lookups) : q.lookups[j2].rule <= k
                /\ \A d \in 1..Len(q.deletes) :
                       \E i \in 1..(k - 1) : q.rules[i].uuid = q.deletes[d]

\* The fault hits candidate 1 of 2, and candidate 2 is one the pass would
\* have deleted.
C9_Witness ==
    \E r \in Reqs : LET q == req[r] IN
        /\ Len(q.rules) = 2
        /\ q.answers = <<"err">> /\ q.lookups[1].rule = 1
        /\ q.sent = <<503>>
        /\ q.targ = "A"
        /\ q.rules[2].from.vms = <<"A">> /\ q.rules[2].to.wildcards = <<"any">>
        /\ InStore(q.rules[1].uuid) /\ InStore(q.rules[2].uuid)

-----------------------------------------------------------------------------
(* C10: idempotence *)

\* C10: with the inventory unchanged and no backend error, a second DELETE for
\* the same target deletes nothing: it issues no store delete, keeps every
\* candidate it is given, gets the answer the first one got, and leaves the
\* store as the first pass left it (the candidates the second pass was given
\* are the store the first pass left, and they are all still there).
C10_Idempotence ==
    ( /\ req[1].pc = "done" /\ req[2].pc = "done"
      /\ req[1].targ = req[2].targ
      /\ faults = 0 ) =>
        /\ req[2].deletes = <<>>
        /\ req[2].sent = req[1].sent
        /\ \A i \in 1..Len(req[2].decisions) : req[2].decisions[i] = "Keep"
        /\ req[2].sent = <<200>> =>
               /\ store = req[2].rules
               /\ Len(req[2].decisions) = Len(req[2].rules)
               /\ \A i \in 1..Len(req[1].rules) :
                      InStore(req[1].rules[i].uuid) <=>
                          (i <= Len(req[1].decisions) /\ req[1].decisions[i] = "Keep")

\* The first pass deletes a rule and keeps another; the second pass runs on
\* what is left.
C10_Witness ==
    /\ req[1].pc = "done" /\ req[2].pc = "done"
    /\ req[1].targ = req[2].targ
    /\ faults = 0
    /\ req[1].sent = <<200>> /\ req[2].sent = <<200>>
    /\ Len(req[1].rules) = 2 /\ Len(req[1].deletes) = 1
    /\ Len(req[2].rules) = 1 /\ req[2].lookups # <<>>
    /\ store = req[2].rules

-----------------------------------------------------------------------------
(* C11: safe retry after a partial failure *)

\* What an evaluation that meets no backend error decides for a rule, read
\* off the inventory: TRUE when the rule is deleted.
ShouldDelete(rule, targ) ==
    /\ rule.tags = <<>>
    /\ IF Structural(rule.from) THEN ~Structural(rule.to) /\ ~HasLive(rule.to.vms, targ)
       ELSE IF Structural(rule.to) THEN ~HasLive(rule.from.vms, targ)
       ELSE ~HasLive(rule.to.vms, targ) \/ ~HasLive(rule.from.vms, targ)

RECURSIVE Survivors(_, _)
\* The rules a fault-free pass for targ leaves of the candidates rules
Survivors(rules, targ) ==
    IF rules = <<>> THEN <<>>
    ELSE IF ShouldDelete(Head(rules), targ) THEN Survivors(Tail(rules), targ)
    ELSE <<Head(rules)>> \o Survivors(Tail(rules), targ)

\* C11: a pass that meets no backend error leaves Survivors of its candidates;
\* and when a first pass that fetched its candidates ended with 503 and the
\* same DELETE is issued again, with the inventory unchanged and no further
\* backend error, the second pass answers 200 and leaves the store a single
\* fault-free pass from the original store would have left.
C11_SafeRetry ==
    /\ (req[1].sent = <<200>> /\ req[2].pc = "idle")
        => store = Survivors(req[1].rules, req[1].targ)
    /\ (/\ req[1].sent = <<503>>
        /\ req[1].k >= 1
        /\ req[2].pc = "done"
        /\ req[2].targ = req[1].targ
        /\ faults = 1)
        => /\ req[2].sent = <<200>>
           /\ store = Survivors(req[1].rules, req[1].targ)

\* A first pass deleted a rule and then failed; the second pass deleted the
\* rule the first one failed on and answered 200.
C11_Witness ==
    /\ req[1].sent = <<503>>
    /\ req[1].decisions = <<"Delete", "Fail">>
    /\ req[2].targ = req[1].targ
    /\ faults = 1
    /\ req[2].sent = <<200>>
    /\ req[2].deletes = <<req[1].rules[2].uuid>>
    /\ store = <<>>

-----------------------------------------------------------------------------
(* C13: both sides structural *)

BothStructural(rule) ==
    rule.tags = <<>> /\ Structural(rule.from) /\ Structural(rule.to)

\* C13: a candidate with empty rule-level tags whose two sides are both
\* structural gets no inventory lookup and no store delete, is decided Keep
\* and stays in the store, whatever VM ids its sides also list.
C13_BothStructural ==
    \A r \in Reqs : \A i \in 1..Len(req[r].rules) :
        BothStructural(req[r].rules[i])
        => /\ LookupsOfRule(req[r], i) = {}
           /\ ~DeleteIssued(req[r], i)
           /\ InStore(req[r].rules[i].uuid)
           /\ i <= Len(req[r].decisions) => req[r].decisions[i] = "Keep"

\* A pass has kept a both-structural rule one side of which also lists a VM
\* id, that VM being dead.
C13_Witness ==
    \E r \in Reqs :
        /\ req[r].sent = <<200>>
        /\ req[r].decisions = <<"Keep">>
        /\ BothStructural(req[r].rules[1])
        /\ req[r].rules[1].from.vms # <<>>
        /\ ~HasLive(req[r].rules[1].from.vms, req[r].targ)
        /\ req[r].calls = <<[op |-> "getVm", rule |-> 0], [op |-> "vmRules", rule |-> 0]>>

-----------------------------------------------------------------------------
(* C14: the success status of the write path *)

\* The candidates were fetched and each was evaluated without a Fail.
AllEvaluated(q) ==
    /\ q.k >= 1
    /\ Len(q.decisions) = Len(q.rules)
    /\ \A i \in 1..Len(q.decisions) : q.decisions[i] \in {"Keep", "Delete"}

\* C14: a finished pass that evaluated every candidate without a Fail has
\* answered 200 and nothing else, whether it deleted none, some or all of them
\* or had no candidate; and a pass that answered 200 fetched the candidates and
\* evaluated every one of them.
C14_SuccessStatus ==
    \A r \in Reqs :
        /\ (req[r].pc = "done" /\ AllEvaluated(req[r])) => req[r].sent = <<200>>
        /\ 200 \in Range(req[r].sent) => AllEvaluated(req[r])

\* A pass that deleted both of its candidates answered 200, and so did the
\* next pass, which found no candidate.
C14_Witness ==
    /\ req[1].sent = <<200>>
    /\ req[1].decisions = <<"Delete", "Delete">>
    /\ req[2].sent = <<200>>
    /\ req[2].k = 1
    /\ req[2].rules = <<>>

-----------------------------------------------------------------------------
(* C15: the target of a DELETE cannot be resolved *)

\* The lookup of the target was answered with an error.
TargetLookupFailed(q) == Len(q.errs) >= 1 /\ q.errs[1] # ErrNone

\* C15: when the lookup of the target is answered with an error, 404
\* included, the request is answered 503 and the target lookup is the only
\* backend call it has made: no query, no probe, no delete.
C15_TargetFailure ==
    \A r \in Reqs :
        TargetLookupFailed(req[r])
        => /\ req[r].pc = "done"
           /\ req[r].sent = <<503>>
           /\ req[r].calls = <<[op |-> "getVm", rule |-> 0]>>
           /\ req[r].rules = <<>>
           /\ req[r].lookups = <<>>
           /\ req[r].deletes = <<>>

\* The inventory does not hold the target: the lookup was answered 404 and
\* the request 503, with a deletable rule in the store.
C15_Witness ==
    \E r \in Reqs :
        /\ req[r].errs = <<ErrNotFound>>
        /\ inventory[req[r].targ] = "absent"
        /\ req[r].sent = <<503>>
        /\ \E i \in 1..Len(store) : ShouldDelete(store[i], req[r].targ)

-----------------------------------------------------------------------------
(* C19: the candidates are processed strictly one after the other *)

\* The calls of q made for candidate i
CallsOfRule(q, i) == {j \in 1..Len(q.calls) : q.calls[j].rule = i}

\* C19: in every DELETE request at most one backend call is out, and it is
\* the last one issued; calls are issued for the candidates in the order the
\* store returned them; when the latest call was issued for candidate i, every
\* candidate before i had its decision and every earlier call, the deletes of
\* earlier candidates included, had been answered; a candidate's delete is the
\* last call made for it.
C19_Sequential ==
    \A r \in Reqs :
        LET q == req[r]
            n == Len(q.calls) IN
        /\ Len(q.errs) \in {n - 1, n}
        /\ (Len(q.errs) = n - 1) <=> (q.pc \in {"getVm", "vmRules", "lookup", "deleteRule"})
        /\ \A j \in 1..n : \A j2 \in 1..n :
               j < j2 => /\ q.calls[j].rule <= q.calls[j2].rule
                         /\ q.calls[j].rule = q.calls[j2].rule
                              => q.calls[j].op # "deleteRule"
        /\ \A j \in 1..n :
               q.calls[j].rule >= 1
               => /\ q.calls[j].rule <= Len(q.rules)
                  /\ Len(q.decisions) >= q.calls[j].rule - 1
                  /\ j > Len(q.errs) => /\ Len(q.decisions) = q.calls[j].rule - 1
                                         /\ q.k = q.calls[j].rule
        /\ \A d \in 1..Len(q.deletes) : \A d2 \in 1..Len(q.deletes) :
               d < d2 => \E i \in 1..Len(q.rules) : \E i2 \in 1..Len(q.rules) :
                            /\ i < i2
                            /\ q.rules[i].uuid = q.deletes[d]
                            /\ q.rules[i2].uuid = q.deletes[d2]

\* A request probed and deleted its first candidate and a probe of its
\* second candidate is out.
C19_Witness ==
    \E r \in Reqs :
        /\ req[r].pc = "lookup"
        /\ req[r].k = 2
        /\ req[r].decisions = <<"Delete">>
        /\ req[r].calls = <<[op |-> "getVm", rule |-> 0], [op |-> "vmRules", rule |-> 0],
                            [op |-> "getVm", rule |-> 1], [op |-> "deleteRule", rule |-> 1],
                            [op |-> "getVm", rule |-> 2]>>
        /\ req[r].errs = <<ErrNone, ErrNone, ErrNotFound, ErrNone>>

-----------------------------------------------------------------------------
(* C20: no rollback on Fail *)

RECURSIVE LeftBy(_, _)
\* The candidates rules without those decided Delete in decisions
LeftBy(rules, decisions) ==
    IF rules = <<>> THEN <<>>
    ELSE IF decisions = <<>> THEN rules
    ELSE IF Head(decisions) = "Delete" THEN LeftBy(Tail(rules), Tail(decisions))
    ELSE <<Head(rules)>> \o LeftBy(Tail(rules), Tail(decisions))

\* No request after r has issued a delete.
NoLaterDelete(r) == \A p \in Reqs : p > r => req[p].deletes = <<>>

\* C20: when a backend call made for candidate k is answered with an error
\* other than 404, that call is the last the request makes (its only calls
\* are getVm, vmRules and deleteRule: no create, no update), candidate k is the
\* first and only Fail, the request is answered 503, and the store holds the
\* candidates in their order without those among 1..k-1 that were decided
\* Delete: the kept ones, candidate k and all later ones are as they were.
C20_NoRollback ==
    \A r \in Reqs :
        LET q == req[r] IN
        /\ \A j \in 1..Len(q.calls) : q.calls[j].op \in {"getVm", "vmRules", "deleteRule"}
        /\ \A j \in 1..Len(q.errs) :
              (IsFault(q.errs[j]) /\ q.calls[j].rule >= 1)
              => /\ j = Len(q.calls)
                 /\ q.pc = "done"
                 /\ q.sent = <<503>>
                 /\ Len(q.decisions) = q.calls[j].rule
                 /\ \A i \in 1..Len(q.decisions) :
                       (q.decisions[i] = "Fail") <=> (i = q.calls[j].rule)
                 /\ NoLaterDelete(r) => store = LeftBy(q.rules, q.decisions)

\* A pass deleted its first candidate, then failed on a probe of its
\* second: the first is gone and the second is still in the store.
C20_Witness ==
    \E r \in Reqs :
        /\ req[r].sent = <<503>>
        /\ req[r].decisions = <<"Delete", "Fail">>
        /\ req[r].answers # <<>>
        /\ req[r].answers[Len(req[r].answers)] = "err"
        /\ NoLaterDelete(r)
        /\ store = <<req[r].rules[2]>>

-----------------------------------------------------------------------------
(* C12: the answer of the store's delete *)

\* C12: when the delete issued for candidate i is answered without error or
\* with 404, candidate i counts as deleted and the pipeline goes on: to the
\* next candidate, or to the 200 when i was the last; when it is answered
\* with another error, candidate i fails, no further call is made and the
\* request is answered 503.
C12_DeleteNotFound ==
    \A r \in Reqs :
        LET q == req[r] IN
        \A j \in 1..Len(q.errs) :
            q.calls[j].op = "deleteRule"
            => LET i == q.calls[j].rule IN
               /\ Len(q.decisions) >= i
               /\ IF IsFault(q.errs[j])
                  THEN /\ q.decisions[i] = "Fail"
                       /\ Len(q.decisions) = i
                       /\ j = Len(q.calls)
                       /\ q.pc = "done"
                       /\ q.sent = <<503>>
                  ELSE /\ q.decisions[i] = "Delete"
                       /\ q.k > i
                       /\ q.sent = <<503>> => Len(q.decisions) > i
                       /\ (q.pc = "done" /\ Len(q.decisions) = i)
                            => (i = Len(q.rules) /\ q.sent = <<200>>)

\* The delete of the first of two candidates was answered 404, the rule
\* having been deleted by the other request; the pass went on to the second
\* candidate and answered 200.
C12_Witness ==
    \E r \in Reqs :
        /\ req[r].method = "DELETE"
        /\ Len(req[r].rules) = Len(req[r].decisions)
        /\ Len(req[r].rules) > 1
        /\ req[r].decisions[1] = "Delete"
        /\ \E j \in 1..Len(req[r].errs) :
              /\ req[r].calls[j] = [op |-> "deleteRule", rule |-> 1]
              /\ req[r].errs[j] = ErrNotFound
        /\ req[r].sent = <<200>>

-----------------------------------------------------------------------------
(* C16: not-found never leaks from the write path *)

\* C16: a DELETE request sends no status other than 200, 503 and 422, and
\* once it is done it has sent exactly one; in particular no 404 that the
\* inventory or the store answered is passed on to the caller.
C16_NoNotFoundLeak ==
    \A r \in Reqs :
        req[r].method = "DELETE"
        => /\ \A j \in 1..Len(req[r].sent) : req[r].sent[j] \in {200, 503, 422}
           /\ req[r].pc = "done" => Len(req[r].sent) = 1

\* A DELETE request was answered 404 by a probe and by the store's delete,
\* and has sent 200.
C16_Witness ==
    \E r \in Reqs :
        /\ req[r].method = "DELETE"
        /\ req[r].sent = <<200>>
        /\ \E j \in 1..Len(req[r].errs) :
              /\ req[r].calls[j].op = "getVm"
              /\ req[r].calls[j].rule >= 1
              /\ req[r].errs[j] = ErrNotFound
        /\ \E j \in 1..Len(req[r].errs) :
              /\ req[r].calls[j].op = "deleteRule"
              /\ req[r].errs[j] = ErrNotFound

-----------------------------------------------------------------------------
(* C17: the read path *)

\* What the log of a GET request that passed validation must look like
ReadPathLog(q) ==
    /\ q.calls[1] = [op |-> "getVm", rule |-> 0]
    /\ q.lookups = <<>>
    /\ q.deletes = <<>>
    /\ \A j \in 1..Len(q.calls) : q.calls[j].op # "deleteRule"
    /\ Len(q.errs) >= 1 =>
          IF q.errs[1] # ErrNone
          THEN /\ q.pc = "done"
               /\ q.sent = <<q.errs[1]>>
               /\ q.errs[1] = ErrNotFound => inventory[q.targ] = "absent"
               /\ Len(q.calls) = 1
          ELSE /\ inventory[q.targ] # "absent"
               /\ q.calls = <<[op |-> "getVm", rule |-> 0], [op |-> "vmRules", rule |-> 0]>>
               /\ q.filter = [owner_uuid |-> VmOwner[q.targ], tags |-> VmTags[q.targ],
                              vms |-> <<q.targ>>]
               /\ Len(q.errs) = Len(q.calls) =>
                     /\ q.pc = "done"
                     /\ IF q.errs[2] # ErrNone THEN q.sent = <<q.errs[2]>>
                        ELSE /\ q.sent = <<200>>
                             /\ Len(q.body) = Len(q.rules)
                             /\ \A i \in 1..Len(q.rules) :
                                   q.body[i] = serialize(q.rules[i])

\* C17: a GET request looks the VM up first; an error of that lookup is the
\* status it answers (404 exactly when the inventory does not hold the VM) and
\* no query is made; otherwise it queries with the filter built from the VM
\* and answers 200 with the rules serialized, or the query's error.  It makes
\* no probe and no delete, and no step of it changes the store.
C17_ReadPath ==
    /\ [](\A r \in Reqs :
            (req[r].method = "GET" /\ req[r].calls # <<>>) => ReadPathLog(req[r]))
    /\ [][\A r \in Reqs :
            (req'[r] # req[r] /\ req'[r].method = "GET") => store' = store]_vars

\* A GET for a VM the inventory holds was answered 200 with the two rules of
\* the store, one of which a DELETE for that VM would remove.
C17_Witness ==
    \E r \in Reqs :
        /\ req[r].method = "GET"
        /\ req[r].sent = <<200>>
        /\ Len(req[r].body) > 1
        /\ store = req[r].rules
        /\ \E i \in 1..Len(store) : ShouldDelete(store[i], req[r].targ)

-----------------------------------------------------------------------------
(* C18: the validation gate *)

\* The parameter of params that is not a well-formed UUID, :uuid first;
\* "none" when the ones present are all well-formed.
Malformed(params) ==
    IF params.uuid \notin UUIDs THEN "uuid"
    ELSE IF "owner_uuid" \notin DOMAIN params THEN "none"
    ELSE IF params.owner_uuid \notin UUIDs THEN "owner_uuid"
    ELSE "none"

\* C18: a GET or DELETE request with a malformed :uuid, or with an owner_uuid
\* that is present and malformed, is answered 422 with an InvalidParameter
\* error for that parameter and makes no backend call; every other request,
\* those without owner_uuid included, goes on to the lookup of the VM and is
\* never answered 422.
C18_ValidationGate ==
    \A r \in Reqs :
        req[r].method \in Methods
        => IF Malformed(req[r].params) # "none"
           THEN /\ req[r].pc = "done"
                /\ req[r].sent = <<422>>
                /\ req[r].calls = <<>>
                /\ Len(req[r].body) = 1
                /\ req[r].body[1].field = Malformed(req[r].params)
                /\ req[r].body[1].code = "InvalidParameter"
           ELSE /\ req[r].calls # <<>>
                /\ req[r].calls[1] = [op |-> "getVm", rule |-> 0]
                /\ req[r].targ = req[r].params.uuid
                /\ \A j \in 1..Len(req[r].sent) : req[r].sent[j] # 422

\* A GET with a malformed owner_uuid and a DELETE with a malformed :uuid were
\* both answered 422.
C18_Witness ==
    \E r \in Reqs : \E p \in Reqs :
        /\ req[r].method = "GET"
        /\ req[r].params = [uuid |-> "A", owner_uuid |-> "not-a-uuid"]
        /\ req[r].sent = <<422>>
        /\ req[p].method = "DELETE"
        /\ req[p].params = [uuid |-> "not-a-uuid"]
        /\ req[p].sent = <<422>>

-----------------------------------------------------------------------------
(* C21: a lookup error other than 404 is never read as 'dead' *)

\* C21: when a lookup made for candidate i, on either side, is answered with
\* an error other than 404, candidate i ends as Fail, the request makes no
\* delete call for it, and the rule is still in the store.
C21_ErrorNotDead ==
    \A r \in Reqs :
        LET q == req[r] IN
        \A j \in 1..Len(q.errs) :
            (q.calls[j].op = "getVm" /\ q.calls[j].rule >= 1 /\ IsFault(q.errs[j]))
            => LET i == q.calls[j].rule IN
               /\ Len(q.decisions) = i
               /\ q.decisions[i] = "Fail"
               /\ \A j2 \in 1..Len(q.calls) :
                     ~(q.calls[j2].op = "deleteRule" /\ q.calls[j2].rule = i)
               /\ ~DeleteIssued(q, i)
               /\ InStore(q.rules[i].uuid)

\* The to side had a live member, the first id of the from side was dead and
\* the lookup of its second and last id failed: the rule ended as Fail.
C21_Witness ==
    \E r \in Reqs :
        /\ req[r].answers = <<"VMExistsError", "null", "err">>
        /\ req[r].lookups[2].side = "from"
        /\ Len(req[r].rules[1].from.vms) = Len(req[r].lookups) - 1
        /\ req[r].decisions = <<"Fail">>
        /\ req[r].sent = <<503>>

-----------------------------------------------------------------------------
(* C22: what the prober counts as dead *)

\* Lookup j of q is for the last id of its side's list and was answered
\* 'dead'.
Exhausted(q, j) ==
    LET vms == SideOf(q.rules[q.lookups[j].rule], q.lookups[j].side).vms IN
    /\ j <= Len(q.answers)
    /\ q.answers[j] = "null"
    /\ q.lookups[j].vm = vms[Len(vms)]

\* The calls of q that are probes, and the position in q.calls of the j-th
Probes(q) == {c \in 1..Len(q.calls) : q.calls[c].op = "getVm" /\ q.calls[c].rule >= 1}

ProbeCall(q, j) ==
    CHOOSE c \in Probes(q) \cup {Len(q.calls) + 1} :
        \/ c = Len(q.calls) + 1 /\ Cardinality(Probes(q)) < j
        \/ c \in Probes(q) /\ Cardinality({c2 \in Probes(q) : c2 <= c}) = j

\* C22: a lookup answered without a backend error counts as dead exactly
\* when it was answered 404, or with the target of the pass, or with a
\* destroyed VM, and as live otherwise; the lookups of a side go through its
\* list in list order, each one after a dead answer to the one before; and
\* once the last id of a list is answered dead the side has no live member:
\* no further lookup is made for the rule and its delete is issued.
C22_DeadClassification ==
    \A r \in Reqs :
        LET q == req[r] IN
        /\ \A j \in 1..Len(q.answers) :
              LET vm == q.lookups[j].vm
                  c == ProbeCall(q, j) IN
              (c <= Len(q.errs) /\ ~IsFault(q.errs[c]))
              => /\ q.answers[j] \in {"null", "VMExistsError"}
                 /\ (q.answers[j] = "null") <=>
                       (\/ q.errs[c] = ErrNotFound
                        \/ vm = q.targ
                        \/ inventory[vm] = "destroyed")
        /\ \A j \in 1..Len(q.lookups) :
              LET vms == SideOf(q.rules[q.lookups[j].rule], q.lookups[j].side).vms IN
              IF j > 1 /\ q.lookups[j - 1].rule = q.lookups[j].rule
                       /\ q.lookups[j - 1].side = q.lookups[j].side
              THEN /\ j - 1 <= Len(q.answers)
                   /\ q.answers[j - 1] = "null"
                   /\ \E n \in 1..(Len(vms) - 1) :
                         q.lookups[j - 1].vm = vms[n] /\ q.lookups[j].vm = vms[n + 1]
              ELSE q.lookups[j].vm = vms[1]
        /\ \A j \in 1..Len(q.lookups) :
              Exhausted(q, j)
              => /\ DeleteIssued(q, q.lookups[j].rule)
                 /\ \A j2 \in LookupsOfRule(q, q.lookups[j].rule) : j2 <= j

\* A side of three ids was probed to its end: the first id was the target,
\* the second a destroyed VM, the third unknown to the inventory; the rule was
\* deleted.
C22_Witness ==
    \E r \in Reqs :
        /\ Len(req[r].lookups) = Cardinality(VMs)
        /\ req[r].lookups[1].vm = req[r].targ
        /\ inventory[req[r].lookups[1].vm] = "running"
        /\ inventory[req[r].lookups[2].vm] = "destroyed"
        /\ inventory[req[r].lookups[3].vm] = "absent"
        /\ req[r].answers = <<"null", "null", "null">>
        /\ req[r].decisions = <<"Delete">>
        /\ store = <<>>

-----------------------------------------------------------------------------
(* C23: the order in which the two VM-bound sides are probed *)

NeitherStructural(rule) ==
    rule.tags = <<>> /\ ~Structural(rule.from) /\ ~Structural(rule.to)

\* C23: for a rule with neither side structural, a lookup for the to side is
\* made only after the from side was probed to its end without a live
\* member.  The handler probes the to side first, and the from side only
\* when the to side has a live member.
C23_Original ==
    \A r \in Reqs :
        LET q == req[r] IN
        \A i \in 1..Len(q.rules) :
            NeitherStructural(q.rules[i])
            => \A j \in LookupsFor(q, i, "to") :
                  \E j0 \in LookupsFor(q, i, "from") : j0 < j /\ Exhausted(q, j0)

-----------------------------------------------------------------------------
(* C24: the target's own state in the inventory *)

\* Live and ShouldDelete, read off an inventory inv
LiveIn(inv, id, targ) == inv[id] \notin {"absent", "destroyed"} /\ id # targ

HasLiveIn(inv, vms, targ) == \E j \in 1..Len(vms) : LiveIn(inv, vms[j], targ)

DecisionIn(inv, rule, targ) ==
    IF rule.tags # <<>> THEN "Keep"
    ELSE IF Structural(rule.from)
         THEN IF Structural(rule.to) \/ HasLiveIn(inv, rule.to.vms, targ)
              THEN "Keep" ELSE "Delete"
    ELSE IF Structural(rule.to)
         THEN IF HasLiveIn(inv, rule.from.vms, targ) THEN "Keep" ELSE "Delete"
    ELSE IF HasLiveIn(inv, rule.to.vms, targ) /\ HasLiveIn(inv, rule.from.vms, targ)
         THEN "Keep" ELSE "Delete"

\* The inventory with the target reported in state st
WithTarget(targ, st) == [inventory EXCEPT ![targ] = st]

\* C24: the decision a pass for target A takes on a candidate, when no
\* backend call made for the candidate fails, is the one DecisionIn gives for
\* the inventory, and that is the same decision whether the inventory reports
\* A as running or as destroyed, the other VMs being as they are.
C24_TargetStateIrrelevant ==
    \A r \in Reqs :
        LET q == req[r] IN
        \A i \in 1..Len(q.decisions) :
            q.decisions[i] # "Fail"
            => /\ q.decisions[i] = DecisionIn(inventory, q.rules[i], q.targ)
               /\ q.decisions[i] = DecisionIn(WithTarget(q.targ, "running"),
                                              q.rules[i], q.targ)
               /\ q.decisions[i] = DecisionIn(WithTarget(q.targ, "destroyed"),
                                              q.rules[i], q.targ)

\* The target is running, was probed as the only id of a side and counted
\* as dead: the rule was deleted.
C24_Witness ==
    \E r \in Reqs :
        /\ req[r].decisions = <<"Delete">>
        /\ inventory[req[r].targ] = "running"
        /\ Len(req[r].lookups) = 1
        /\ req[r].lookups[1].vm = req[r].targ
        /\ req[r].answers = <<"null">>

-----------------------------------------------------------------------------
(* C25: the decision on a rule keeps nothing from other rules *)

\* The lookups q made for candidate i, in order, each with its answer
\* ("out" while it has none)
ProbesOf(q, i) ==
    LET off == Cardinality({j \in 1..Len(q.lookups) : q.lookups[j].rule < i})
        num == Cardinality(LookupsOfRule(q, i)) IN
    [n \in 1..num |->
        [side |-> q.lookups[off + n].side,
         vm |-> q.lookups[off + n].vm,
         answer |-> IF off + n <= Len(q.answers) THEN q.answers[off + n] ELSE "out"]]

\* The delete q issued for candidate i was answered with an error other than 404.
DeleteFailed(q, i) ==
    \E c \in 1..Len(q.errs) :
        q.calls[c] = [op |-> "deleteRule", rule |-> i] /\ IsFault(q.errs[c])

SameButUuid(rule1, rule2) ==
    rule1.tags = rule2.tags /\ rule1.from = rule2.from /\ rule1.to = rule2.to

\* Two sequences of probes carry the same answers as far as both go.
AnswersAgree(a, b) ==
    \A n \in 1..Len(a) : n <= Len(b) => a[n].answer = b[n].answer

\* C25: take two evaluations that have ended, of rules that differ at most in
\* their uuid, for the same target: in the same pass or in two passes, first
\* or later in the candidate list.  If the answers to their lookups agree as
\* far as both go, they made the same lookups in the same order and both or
\* neither issued a delete; and if their deletes did not fare differently
\* they ended with the same decision.
C25_StatelessDecisions ==
    \A r \in Reqs : \A p \in Reqs :
        \A i \in 1..Len(req[r].decisions) : \A i2 \in 1..Len(req[p].decisions) :
            LET a == ProbesOf(req[r], i)
                b == ProbesOf(req[p], i2) IN
            (/\ SameButUuid(req[r].rules[i], req[p].rules[i2])
             /\ req[r].targ = req[p].targ
             /\ AnswersAgree(a, b))
            => /\ a = b
               /\ DeleteIssued(req[r], i) <=> DeleteIssued(req[p], i2)
               /\ (DeleteFailed(req[r], i) <=> DeleteFailed(req[p], i2))
                    => req[r].decisions[i] = req[p].decisions[i2]

\* The second candidate of a pass is the first one under another uuid; the
\* pass probed two ids for each, with the same answers, and deleted both.
C25_Witness ==
    \E r \in Reqs :
        /\ req[r].decisions = <<"Delete", "Delete">>
        /\ SameButUuid(req[r].rules[1], req[r].rules[2])
        /\ Len(req[r].lookups) = 4
        /\ ProbesOf(req[r], 1) = ProbesOf(req[r], 2)
        /\ req[r].deletes = <<1, 2>>

-----------------------------------------------------------------------------
(* C26: the candidate query of a DELETE fails *)

\* C26: when the candidate query of a DELETE request is answered with an
\* error, the request is answered 503 and has made two backend calls, the
\* lookup of the target and the query: no probe and no delete.
C26_QueryFailure ==
    \A r \in Reqs :
        LET q == req[r] IN
        (\E c \in 1..Len(q.errs) : q.calls[c].op = "vmRules" /\ q.errs[c] # ErrNone)
        => /\ q.pc = "done"
           /\ q.sent = <<503>>
           /\ q.calls = <<[op |-> "getVm", rule |-> 0], [op |-> "vmRules", rule |-> 0]>>
           /\ q.rules = <<>>
           /\ q.decisions = <<>>
           /\ q.lookups = <<>>
           /\ q.deletes = <<>>

\* The target was found, the query failed and the request was answered 503,
\* with a rule in the store that the pass would have deleted.
C26_Witness ==
    \E r \in Reqs :
        /\ req[r].errs = <<ErrNone, ErrBackend>>
        /\ req[r].sent = <<503>>
        /\ \E i \in 1..Len(store) : ShouldDelete(store[i], req[r].targ)

-----------------------------------------------------------------------------
(* C27: the engine only removes candidates *)

\* The delete calls of q for candidate i
DeleteCalls(q, i) ==
    {c \in 1..Len(q.calls) : q.calls[c] = [op |-> "deleteRule", rule |-> i]}

\* What C27 says of the log of one request
OnlyCandidatesDeleted(q) ==
    /\ \A c \in 1..Len(q.calls) : q.calls[c].op \in {"getVm", "vmRules", "deleteRule"}
    /\ \A d \in 1..Len(q.deletes) :
          \E i \in 1..Len(q.rules) : q.rules[i].uuid = q.deletes[d]
    /\ \A i \in 1..Len(q.rules) : Cardinality(DeleteCalls(q, i)) <= 1
    /\ NoDup(q.deletes)
    /\ Len(q.deletes) = Cardinality({c \in 1..Len(q.calls) : q.calls[c].op = "deleteRule"})

\* C27: every delete a request issues is for the uuid of one of its
\* candidates, at most one per candidate, and its only other calls are getVm
\* and vmRules; every step leaves in the store a subset of the rules it
\* held, in their order, and a rule that leaves the store is a candidate of a
\* request that issued its delete; so once a pass is over the store holds
\* candidates of that pass only.
C27_OnlyRemoves ==
    /\ [](\A r \in Reqs :
            /\ OnlyCandidatesDeleted(req[r])
            /\ (req[r].pc = "done" /\ req[r].k >= 1 /\ NoLaterDelete(r))
                 => Range(store) \subseteq Range(req[r].rules))
    /\ [][/\ Range(store') \subseteq Range(store)
          /\ Len(store') <= Len(store)
          /\ \A rule \in Range(store) \ Range(store') :
                \E r \in Reqs : /\ rule \in Range(req'[r].rules)
                                /\ rule.uuid \in Range(req'[r].deletes)]_vars

\* A pass over two candidates deleted the second and kept the first, which
\* is what the store holds.
C27_Witness ==
    \E r \in Reqs :
        /\ req[r].sent = <<200>>
        /\ req[r].decisions = <<"Keep", "Delete">>
        /\ NoLaterDelete(r)
        /\ store = <<req[r].rules[1]>>

-----------------------------------------------------------------------------
(* C28: exactly one response *)

\* C28: a request has sent at most one response and called next as often;
\* it has sent one exactly when it is done, with every backend call it made
\* answered; and once it has sent a response nothing of it changes any more:
\* no lookup, no delete, no second response, on whichever path the response
\* was sent.
C28_OneResponse ==
    /\ [](\A r \in Reqs :
            /\ Len(req[r].sent) <= 1
            /\ req[r].nexts = Len(req[r].sent)
            /\ (req[r].pc = "done") <=> (Len(req[r].sent) = 1)
            /\ req[r].sent # <<>> => Len(req[r].errs) = Len(req[r].calls))
    /\ [][\A r \in Reqs : req[r].sent # <<>> => req'[r] = req[r]]_vars

\* The two passes have ended on different paths: the first failed at its
\* second candidate, the second evaluated every candidate.
C28_Witness ==
    /\ req[1].sent = <<503>>
    /\ Len(req[1].decisions) > 1
    /\ req[1].nexts = 1
    /\ req[2].sent = <<200>>
    /\ req[2].decisions # <<>>
    /\ req[2].nexts = 1

-----------------------------------------------------------------------------
(* C29: termination *)

\* C29: with every backend call returning, a DELETE request that has been
\* received sends its response in the end, whatever the candidate list and
\* the vms lists are, the empty ones included.
C29_Termination ==
    \A r \in Reqs : (req[r].pc # "idle") ~> (req[r].sent # <<>>)

\* A pass over a candidate with an empty vms list and a long one, every
\* lookup made, has responded.
C29_Witness ==
    \E r \in Reqs :
        /\ req[r].rules # <<>>
        /\ req[r].sent = <<200>>
        /\ req[r].rules[1].from.vms = <<>>
        /\ Len(req[r].rules[1].to.vms) = 3
        /\ Len(req[r].lookups) = 3
        /\ Len(req[r].decisions) = Len(req[r].rules)

-----------------------------------------------------------------------------
(* C30: two requests delete the same rule *)

\* The answered delete calls of q for the rule with this uuid
DeletesOf(q, uuid) ==
    {c \in 1..Len(q.errs) :
        /\ q.calls[c].op = "deleteRule"
        /\ q.calls[c].rule <= Len(q.rules)
        /\ q.rules[q.calls[c].rule].uuid = uuid}

\* A backend call of q was answered with an error other than 404.
HadFault(q) == \E c \in 1..Len(q.errs) : IsFault(q.errs[c])

\* C30: when two requests have each had their delete of the same rule
\* answered by the store, in whatever order their calls interleaved, the rule
\* is out of the store, one delete was answered without error and the other
\* with 404, both requests count the rule as deleted, and a request that
\* answers 503 had a backend error of its own.
C30_DoubleDeletion ==
    \A r, p \in Reqs : \A uuid \in 1..MaxRules :
        \A c \in DeletesOf(req[r], uuid) : \A d \in DeletesOf(req[p], uuid) :
            (r # p /\ ~IsFault(req[r].errs[c]) /\ ~IsFault(req[p].errs[d]))
            => /\ ~InStore(uuid)
               /\ {req[r].errs[c], req[p].errs[d]} = {ErrNone, ErrNotFound}
               /\ req[r].decisions[req[r].calls[c].rule] = "Delete"
               /\ req[p].decisions[req[p].calls[d].rule] = "Delete"
               /\ req[r].sent = <<503>> => HadFault(req[r])
               /\ req[p].sent = <<503>> => HadFault(req[p])

\* Two overlapping DELETE requests each had a delete of rule 1 answered:
\* request 2's removed the rule, request 1's came second and was answered
\* 404; both requests answered 200.
C30_Witness ==
    /\ req[1].method = "DELETE" /\ req[2].method = "DELETE"
    /\ req[1].sent = <<200>> /\ req[2].sent = <<200>>
    /\ DeletesOf(req[1], 1) # {} /\ DeletesOf(req[2], 1) # {}
    /\ \A c \in DeletesOf(req[1], 1) : req[1].errs[c] = ErrNotFound
    /\ \A d \in DeletesOf(req[2], 1) : req[2].errs[d] = ErrNone
    /\ ~InStore(1)

-----------------------------------------------------------------------------
(* C31: a race leaves a vacuous rule *)

\* Candidate i of q is a rule from [A, B] to a structural side.
FromABToStructural(q, i) ==
    /\ q.rules[i].from.vms = <<"A", "B">>
    /\ ~Structural(q.rules[i].from)
    /\ Structural(q.rules[i].to)

\* C31: while the inventory holds both A and B live, a pass for target A or
\* for target B that has evaluated a rule from [A, B] to a structural side,
\* its lookups answered, has kept it without issuing a delete, and the rule
\* is in the store, the passes running one after the other or interleaved;
\* it is there when both have answered 200.
C31_RaceLeavesRule ==
    (inventory["A"] = "running" /\ inventory["B"] = "running")
    => \A r \in Reqs : LET q == req[r] IN
         \A i \in 1..Len(q.decisions) :
            (q.method = "DELETE" /\ q.targ \in {"A", "B"}
             /\ FromABToStructural(q, i) /\ ~LookupFailed(q, i))
            => /\ q.decisions[i] = "Keep"
               /\ ~DeleteIssued(q, i)
               /\ InStore(q.rules[i].uuid)

\* The pass for A and the pass for B have both kept the rule and answered
\* 200, each having found the other's VM live.
C31_Witness ==
    /\ inventory["A"] = "running" /\ inventory["B"] = "running"
    /\ req[1].method = "DELETE" /\ req[2].method = "DELETE"
    /\ req[1].targ = "A" /\ req[2].targ = "B"
    /\ req[1].sent = <<200>> /\ req[2].sent = <<200>>
    /\ req[1].decisions = <<"Keep">> /\ req[2].decisions = <<"Keep">>
    /\ req[1].answers = <<"null", "VMExistsError">>
    /\ req[2].answers = <<"VMExistsError">>
    /\ FromABToStructural(req[1], 1)
    /\ store = req[1].rules

-----------------------------------------------------------------------------
(* C32: the lookups of one rule *)

\* The calls of q made for candidate i with this operation
CallsFor(q, i, op) ==
    {c \in 1..Len(q.calls) : q.calls[c] = [op |-> op, rule |-> i]}

\* The lookups of q for one side of candidate i are for distinct ids of that
\* side's vms list.
OncePerPosition(q, i, side) ==
    /\ \A j \in LookupsFor(q, i, side) :
          q.lookups[j].vm \in Range(SideOf(q.rules[i], side).vms)
    /\ \A j1, j2 \in LookupsFor(q, i, side) :
          j1 # j2 => q.lookups[j1].vm # q.lookups[j2].vm

\* C32: a request has at most one probe lookup out, and one exactly while it
\* waits for it; for each candidate each id of a side's vms list is looked
\* up at most once, the lookups of the candidate are no more than the ids of
\* its two lists, and its delete goes out after every one of its lookups
\* has been answered.
C32_LookupBound ==
    \A r \in Reqs : LET q == req[r] IN
        /\ Len(q.lookups) - Len(q.answers) \in {0, 1}
        /\ Len(q.calls) - Len(q.errs) \in {0, 1}
        /\ (Len(q.lookups) > Len(q.answers)) <=> (q.pc = "lookup")
        /\ \A i \in 1..Len(q.rules) :
              /\ OncePerPosition(q, i, "from")
              /\ OncePerPosition(q, i, "to")
              /\ Cardinality(LookupsOfRule(q, i))
                    <= Len(q.rules[i].from.vms) + Len(q.rules[i].to.vms)
              /\ Cardinality(CallsFor(q, i, "getVm"))
                    = Cardinality(LookupsOfRule(q, i))
              /\ \A d \in CallsFor(q, i, "deleteRule") :
                    /\ Len(q.errs) >= d - 1
                    /\ \A c \in CallsFor(q, i, "getVm") : c < d
                    /\ \A j \in LookupsOfRule(q, i) : j <= Len(q.answers)

\* A rule with three ids on its to side and two on its from side was
\* deleted after five lookups, one for each id.
C32_Witness ==
    \E r \in Reqs : LET q == req[r] IN
        /\ q.decisions = <<"Delete">>
        /\ q.sent = <<200>>
        /\ Len(q.rules[1].to.vms) = 3
        /\ Len(q.rules[1].from.vms) = 2
        /\ Len(q.lookups) = 5
        /\ Len(q.answers) = 5
        /\ q.deletes = <<q.rules[1].uuid>>

-----------------------------------------------------------------------------
(* C33: validate.params *)

\* The outcome of the validation of request q
Outcome(q) == q.body

\* The validator of parameter v fails on the parameters of q.
Fails(q, v) ==
    /\ v \in DOMAIN q.params
    /\ Validator(v, v, q.params[v]) # Returns

Failing(q) == {v \in Range(ListValidators) : Fails(q, v)}

\* C33: a list request whose parameters have been validated has an error for
\* each present parameter whose validator threw and for no other; with any
\* such, the one InvalidParamsError 'Invalid parameters' holds one entry
\* (code, field, message) for each, no results are returned and the answer
\* is 422; with none, the results hold the present parameters and nothing is
\* thrown.  A misformatted owner_uuid, ip, vm or subnet is named in the
\* errors.
C33_ListValidation ==
    \A r \in Reqs : LET q == req[r] IN
        (q.method = "GET" /\ q.pc \in {"list", "done"})
        => LET out == Outcome(q) IN
           /\ {out.errors[i].field : i \in 1..Len(out.errors)} = Failing(q)
           /\ Len(out.errors) = Cardinality(Failing(q))
           /\ \A i \in 1..Len(out.errors) :
                 /\ out.errors[i].code = "InvalidParameter"
                 /\ DOMAIN out.errors[i] = {"code", "field", "message"}
           /\ IF Failing(q) # {}
              THEN /\ out.threw
                   /\ out.name = "InvalidParamsError"
                   /\ out.message = "Invalid parameters"
                   /\ out.results = {}
                   /\ q.sent = <<422>>
              ELSE /\ ~out.threw
                   /\ out.results = DOMAIN q.params
                   /\ q.sent \in {<<>>, <<200>>}
           /\ ("owner_uuid" \in DOMAIN q.params /\ q.params.owner_uuid = Str("not-a-uuid"))
                => "owner_uuid" \in Failing(q)
           /\ ("ip" \in DOMAIN q.params /\ q.params.ip = Str("not-an-ip"))
                => "ip" \in Failing(q)
           /\ ("vm" \in DOMAIN q.params /\ q.params.vm = Str("not-a-vm"))
                => "vm" \in Failing(q)
           /\ ("subnet" \in DOMAIN q.params /\ q.params.subnet = Str("not-a-subnet"))
                => "subnet" \in Failing(q)

\* A request with a misformatted ip and a misformatted subnet beside a valid
\* vm was answered 422 with the two errors.
C33_Witness ==
    \E r \in Reqs : LET q == req[r] IN
        /\ q.sent = <<422>>
        /\ q.method = "GET"
        /\ DOMAIN q.params = {"ip", "vm", "subnet"}
        /\ q.params.vm = Str(Uuid1)
        /\ Len(q.body.errors) = 2
        /\ q.body.errors[1] = invalidParamErr("IP Addr", "ip")
        /\ q.body.errors[2] = invalidParamErr("Subnet", "subnet")

-----------------------------------------------------------------------------
(* C34: a string or an array *)

\* What makes one string a valid vm, ip or subnet
ElemValid(v, str) ==
    CASE v = "vm" -> validUUID(str)
      [] v = "ip" -> isIP(str) # 0
      [] v = "subnet" -> _validateSubnet(str)

\* The value is a valid string, or an array of valid strings.
AllValid(v, val) ==
    IF IsString(val) THEN ElemValid(v, val.str)
    ELSE \A i \in 1..Len(val.arr) : ElemValid(v, val.arr[i])

FieldError(v) ==
    CASE v = "vm" -> invalidParamErr("VM", "vm")
      [] v = "ip" -> invalidParamErr("IP Addr", "ip")
      [] v = "subnet" -> invalidParamErr("Subnet", "subnet")

\* C34: in a validated list request a vm, ip or subnet parameter, a string
\* or an array, is accepted exactly when the string is valid or every
\* element of the array is; one that is not accepted has the
\* InvalidParameter error of its field among the errors, once; and a request
\* whose vm, ip and subnet are all valid, with no owner_uuid, is not
\* answered 422 and is answered 200 when it is done.
C34_ScalarOrArray ==
    \A r \in Reqs : LET q == req[r] IN
        (q.method = "GET" /\ q.pc \in {"list", "done"})
        => LET errors == Outcome(q).errors IN
           /\ \A v \in {"vm", "ip", "subnet"} \cap DOMAIN q.params :
                 /\ AllValid(v, q.params[v])
                      <=> ~\E i \in 1..Len(errors) : errors[i].field = v
                 /\ ~AllValid(v, q.params[v])
                      => Cardinality({i \in 1..Len(errors) : errors[i] = FieldError(v)}) = 1
           /\ (/\ "owner_uuid" \notin DOMAIN q.params
               /\ \A v \in DOMAIN q.params : AllValid(v, q.params[v]))
                => /\ q.sent # <<422>>
                   /\ q.pc = "done" => q.sent = <<200>>

\* A request with an array of two valid ips and a valid subnet string was
\* rejected for the second element of its vm array.
C34_Witness ==
    \E r \in Reqs : LET q == req[r] IN
        /\ q.sent = <<422>>
        /\ q.method = "GET"
        /\ DOMAIN q.params = {"ip", "vm", "subnet"}
        /\ q.params.ip = Arr(<<"8.8.8.8", "4.4.4.4">>)
        /\ q.params.subnet = Str("10.8.0.0/16")
        /\ q.params.vm = Arr(<<Uuid1, "not-a-vm">>)
        /\ q.body.errors = <<invalidParamErr("VM", "vm")>>

-----------------------------------------------------------------------------
(* C35: subnets *)

\* The subnet strings a list request was sent with
SubnetsOf(q) ==
    IF "subnet" \notin DOMAIN q.params THEN {}
    ELSE IF IsString(q.params.subnet) THEN {q.params.subnet.str}
    ELSE Range(q.params.subnet.arr)

\* The prefix-length part of the value is a number.
NumericMask(str) ==
    Len(split(str)) = 2 /\ ~Number(split(str)[2]).nan

\* C35, as stated: a validated request whose subnet parameter was accepted
\* holds only values of two parts, an IPv4 or IPv6 address and a number of at
\* most 31 or 127; a value whose prefix-length part is not a number is
\* rejected with 'Invalid Subnet'.
C35_SubnetValidation ==
    \A r \in Reqs : LET q == req[r] IN
        (q.method = "GET" /\ q.pc \in {"list", "done"})
        => /\ ("subnet" \in Outcome(q).results)
                => \A str \in SubnetsOf(q) :
                      /\ Len(split(str)) = 2
                      /\ isIP(split(str)[1]) # 0
                      /\ NumericMask(str)
                      /\ isIP(split(str)[1]) = 4 => Number(split(str)[2]).val <= 31
                      /\ isIP(split(str)[1]) = 6 => Number(split(str)[2]).val <= 127
           /\ (\E str \in SubnetsOf(q) : ~NumericMask(str))
                => \E i \in 1..Len(Outcome(q).errors) :
                      Outcome(q).errors[i] = invalidParamErr("Subnet", "subnet")

-----------------------------------------------------------------------------
(* C36: the side classifier *)

\* Two sides that differ in their vms and tags at most
SameSelectors(s1, s2) ==
    /\ s1.wildcards = s2.wildcards
    /\ s1.ips = s2.ips
    /\ s1.subnets = s2.subnets

OtherSide(name) == IF name = "from" THEN "to" ELSE "from"

\* C36: for each side of a candidate that maybeDeleteRule has classified,
\* sideActive is true exactly when wildcards, ips or subnets is non-empty,
\* and it is the same for every side with these three fields, whatever its
\* vms and tags; so a side with one of them is never looked up, whatever its
\* vms list, and a side with none of them, tags or not, is looked up when it
\* has ids and the other side is active.
C36_SideClassifier ==
    \A r \in Reqs : LET q == req[r] IN
        \A i \in 1..Len(q.decisions) : \A name \in {"from", "to"} :
            LET side == SideOf(q.rules[i], name)
                other == SideOf(q.rules[i], OtherSide(name)) IN
            q.rules[i].tags = <<>>
            => /\ sideActive(side)
                    <=> (side.wildcards # <<>> \/ side.ips # <<>> \/ side.subnets # <<>>)
               /\ \A s2 \in Sides :
                     SameSelectors(side, s2) => (sideActive(s2) <=> sideActive(side))
               /\ (side.wildcards # <<>> \/ side.ips # <<>> \/ side.subnets # <<>>)
                    => LookupsFor(q, i, name) = {}
               /\ (/\ side.wildcards = <<>> /\ side.ips = <<>> /\ side.subnets = <<>>
                   /\ side.vms # <<>>
                   /\ (other.wildcards # <<>> \/ other.ips # <<>> \/ other.subnets # <<>>))
                    => LookupsFor(q, i, name) # {}

\* A rule from a wildcard side that also lists a VM to a side with a tag
\* and a VM has been evaluated: the to side alone was looked up.
C36_Witness ==
    \E r \in Reqs : LET q == req[r] IN
        /\ Len(q.decisions) = 1
        /\ q.rules[1].tags = <<>>
        /\ q.rules[1].from.wildcards # <<>> /\ q.rules[1].from.vms # <<>>
        /\ q.rules[1].to.tags # <<>> /\ q.rules[1].to.vms # <<>>
        /\ LookupsFor(q, 1, "from") = {}
        /\ LookupsFor(q, 1, "to") # {}

====
